---------------------------- MODULE Spec2Model ----------------------------
(***************************************************************************)
(* The enrichment pipeline of the Ile-de-France footballers dataset        *)
(* (src/src/analysis/analyze_players.py): load_data, the geographic        *)
(* resolver extract_department_from_birthplace, the diaspora classifier    *)
(* categorize_diaspora and the aggregator analyze_dataset.                 *)
(*                                                                         *)
(* Python values are modelled as follows.  A str is a TLA+ string, a list  *)
(* a sequence, a dict a function from its keys (a record).  A value the    *)
(* code tests for None, for its type or for truthiness is a tagged record: *)
(* PyNone, PyStr(s), PyInt(n), PyDict(d).                                  *)
(***************************************************************************)
EXTENDS Integers, Sequences, FiniteSets, TLC

VARIABLES
  doc,               \* the parsed JSON input document (json.load's value)
  pc,                \* position of the analysis pipeline
  error,             \* the exception that ended the pipeline, "none" so far
  players,           \* load_data's return value
  idx,               \* number of players the loop of analyze_dataset has finished
  dual_nationals,    \* analyze_dataset's counter
  birth_years,       \* analyze_dataset's list of parsed years
  departments,       \* defaultdict(int): department code -> count
  diaspora_regions,  \* defaultdict(int): region label -> count
  diaspora_countries,\* defaultdict(int): country -> count
  nationalities_all, \* every nationality of every player, in order
  enriched_players,  \* the enriched list under construction
  results,           \* the summary analyze_dataset returns
  r_input,           \* resolver run: the birthplace_name argument
  r_pc,              \* resolver run: position
  r_name,            \* resolver run: the lower-cased name
  r_k,               \* resolver run: index of the next city_to_dept item
  r_result,          \* resolver run: the returned value
  c_input,           \* classifier run: the nationalities argument
  c_pc,              \* classifier run: position
  c_pos,             \* classifier run: number of nationalities visited
  c_result,          \* classifier run: the result dict
  now,               \* the wall clock, in ticks since the process started
  analysis_date,     \* datetime.now() as read for results["metadata"]
  run,               \* which call of analyze_dataset is in progress (1 or 2)
  first_results,     \* the summary the first call returned
  first_enriched,    \* the enriched list the first call returned
  p_pc,              \* percentage: position
  p_count,           \* percentage: the count
  p_total,           \* percentage: the total
  p_pct,             \* percentage: the rounded value, in tenths of a percent
  input_file,        \* main: data/raw/wikidata/idf_footballers.json on disk
  files,             \* main: the five output files on disk
  out_k,             \* main: number of output files completed
  stats_input,       \* report: the counters analyze_dataset accumulated
  stats_pc,          \* report: position
  stats_results,     \* report: the summary, its dicts in iteration order
  stats_rows,        \* report: the rows of the four tables
  d_app,             \* dashboard: which of the two apps runs
  d_rows,            \* dashboard: the rows of the exported dataset
  d_pc,              \* dashboard: position
  d_selection,       \* dashboard: the values of the four sidebar widgets
  d_filtered,        \* dashboard: filtered_df, as row numbers of d_rows
  d_error,           \* dashboard: the exception raised, "none" so far
  k_script,          \* collection: wikidata.py or retry_93_95.py
  k_pc,              \* collection: position
  k_pos,             \* collection: number of departements attempted
  k_all,             \* collection: all_players
  k_log,             \* collection: the departements whose failure was logged
  k_returned,        \* collection: what each successful query returned
  k_saved,           \* collection: the players of the saved file, or null
  k_main,            \* collection: idf_footballers.json as the retry script finds it
  k_merged,          \* collection: idf_footballers.json after the merge
  par_pc,            \* map-style run: position
  par_done,          \* map-style run: record number -> its contribution
  par_result,        \* map-style run: the folded list and counters
  g_pc,              \* BaseCollector: position of get
  g_last,            \* BaseCollector: _last_request_time
  g_clock,           \* BaseCollector: time.time()
  g_sent,            \* BaseCollector: when the request in flight was sent
  g_done,            \* BaseCollector: when the previous request completed
  g_outcome          \* BaseCollector: how the previous request completed

pipeline_vars ==
  <<doc, pc, error, players, idx, dual_nationals, birth_years, departments,
    diaspora_regions, diaspora_countries, nationalities_all, enriched_players,
    results, now, analysis_date>>

resolver_vars == <<r_input, r_pc, r_name, r_k, r_result>>

classifier_vars == <<c_input, c_pc, c_pos, c_result>>

rerun_vars == <<run, first_results, first_enriched>>

\* the state of the runs other than the pipeline, the resolver and the classifier
percent_vars == <<p_pc, p_count, p_total, p_pct>>

io_vars == <<input_file, files, out_k>>

stats_vars == <<stats_input, stats_pc, stats_results, stats_rows>>

dashboard_vars == <<d_app, d_rows, d_pc, d_selection, d_filtered, d_error>>

collection_vars ==
  <<k_script, k_pc, k_pos, k_all, k_log, k_returned, k_saved, k_main, k_merged>>

parallel_vars == <<par_pc, par_done, par_result>>

ratelimit_vars == <<g_pc, g_last, g_clock, g_sent, g_done, g_outcome>>

aux_vars ==
  <<rerun_vars, percent_vars, io_vars, stats_vars, dashboard_vars,
    collection_vars, parallel_vars, ratelimit_vars>>

vars == <<pipeline_vars, resolver_vars, classifier_vars, aux_vars>>

---------------------------------------------------------------------------
(* Python values *)

PyNone == [t |-> "null"]

PyStr(s) == [t |-> "str", v |-> s]

PyInt(n) == [t |-> "int", v |-> n]

PyDict(d) == [t |-> "dict", v |-> d]

EmptyDict == <<>>

\* bool(x) as `if x:` computes it
Truthy(x) ==
  CASE x.t = "null" -> FALSE
    [] x.t = "str"  -> Len(x.v) > 0
    [] x.t = "int"  -> x.v # 0
    [] x.t = "dict" -> DOMAIN x.v # {}

\* d.get(key, default)
Get(d, key, default) == IF key \in DOMAIN d THEN d[key] ELSE default

\* defaultdict(int): d[key] += 1
Incr(d, key) ==
  IF key \in DOMAIN d THEN [d EXCEPT ![key] = @ + 1] ELSE (key :> 1) @@ d

\* defaultdict(int): d[key] += n
IncrBy(d, key, n) ==
  IF key \in DOMAIN d THEN [d EXCEPT ![key] = @ + n] ELSE (key :> n) @@ d

\* sub in s, for two str
Contains(s, sub) ==
  \E i \in 1..(Len(s) - Len(sub) + 1) : SubSeq(s, i, i + Len(sub) - 1) = sub

UpperChars == "ABCDEFGHIJKLMNOPQRSTUVWXYZÀÂÇÈÉÊËÎÏÔÙÛÜ"

LowerChars == "abcdefghijklmnopqrstuvwxyzàâçèéêëîïôùûü"

LowerChar(c) ==
  IF \E i \in 1..Len(UpperChars) : SubSeq(UpperChars, i, i) = c
    THEN LET i == CHOOSE j \in 1..Len(UpperChars) : SubSeq(UpperChars, j, j) = c
         IN  SubSeq(LowerChars, i, i)
    ELSE c

RECURSIVE lower(_)
\* str.lower(), on the letters of French place names
lower(s) ==
  IF Len(s) = 0 THEN ""
  ELSE LowerChar(SubSeq(s, 1, 1)) \o lower(SubSeq(s, 2, Len(s)))

---------------------------------------------------------------------------
(* extract_department_from_birthplace *)

\* the dict literal, in definition order (the order .items() iterates in)
city_to_dept ==
  <<
    <<"boulogne-billancourt", "92">>, <<"nanterre", "92">>, <<"colombes", "92">>,
    <<"asnières", "92">>, <<"courbevoie", "92">>, <<"rueil-malmaison", "92">>,
    <<"issy-les-moulineaux", "92">>, <<"levallois-perret", "92">>, <<"neuilly-sur-seine", "92">>,
    <<"antony", "92">>, <<"clichy", "92">>, <<"clamart", "92">>,
    <<"meudon", "92">>, <<"montrouge", "92">>, <<"suresnes", "92">>,
    <<"gennevilliers", "92">>, <<"châtillon", "92">>, <<"sceaux", "92">>,
    <<"puteaux", "92">>, <<"vanves", "92">>, <<"garches", "92">>,
    <<"chaville", "92">>, <<"fontenay-aux-roses", "92">>, <<"le plessis-robinson", "92">>,
    <<"bagneux", "92">>, <<"châtenay-malabry", "92">>, <<"créteil", "94">>,
    <<"vitry-sur-seine", "94">>, <<"champigny-sur-marne", "94">>, <<"saint-maur-des-fossés", "94">>,
    <<"ivry-sur-seine", "94">>, <<"maisons-alfort", "94">>, <<"fontenay-sous-bois", "94">>,
    <<"villejuif", "94">>, <<"vincennes", "94">>, <<"alfortville", "94">>,
    <<"choisy-le-roi", "94">>, <<"le kremlin-bicêtre", "94">>, <<"nogent-sur-marne", "94">>,
    <<"thiais", "94">>, <<"cachan", "94">>, <<"charenton-le-pont", "94">>,
    <<"orly", "94">>, <<"villeneuve-saint-georges", "94">>, <<"arcueil", "94">>,
    <<"fresnes", "94">>, <<"sucy-en-brie", "94">>, <<"joinville-le-pont", "94">>,
    <<"saint-mandé", "94">>, <<"versailles", "78">>, <<"sartrouville", "78">>,
    <<"mantes-la-jolie", "78">>, <<"saint-germain-en-laye", "78">>, <<"poissy", "78">>,
    <<"conflans-sainte-honorine", "78">>, <<"montigny-le-bretonneux", "78">>, <<"les mureaux", "78">>,
    <<"plaisir", "78">>, <<"trappes", "78">>, <<"houilles", "78">>,
    <<"chatou", "78">>, <<"le chesnay", "78">>, <<"carrières-sous-poissy", "78">>,
    <<"élancourt", "78">>, <<"rambouillet", "78">>, <<"meaux", "77">>,
    <<"chelles", "77">>, <<"melun", "77">>, <<"pontault-combault", "77">>,
    <<"savigny-le-temple", "77">>, <<"torcy", "77">>, <<"roissy-en-brie", "77">>,
    <<"combs-la-ville", "77">>, <<"villeparisis", "77">>, <<"ozoir-la-ferrière", "77">>,
    <<"dammarie-les-lys", "77">>, <<"lagny-sur-marne", "77">>, <<"évry", "91">>,
    <<"corbeil-essonnes", "91">>, <<"massy", "91">>, <<"savigny-sur-orge", "91">>,
    <<"sainte-geneviève-des-bois", "91">>, <<"athis-mons", "91">>, <<"palaiseau", "91">>,
    <<"viry-châtillon", "91">>, <<"vigneux-sur-seine", "91">>, <<"grigny", "91">>,
    <<"brunoy", "91">>, <<"les ulis", "91">>, <<"longjumeau", "91">>,
    <<"ris-orangis", "91">>, <<"saint-denis", "93">>, <<"montreuil", "93">>,
    <<"aubervilliers", "93">>, <<"aulnay-sous-bois", "93">>, <<"drancy", "93">>,
    <<"noisy-le-grand", "93">>, <<"pantin", "93">>, <<"bondy", "93">>,
    <<"bobigny", "93">>, <<"le blanc-mesnil", "93">>, <<"sevran", "93">>,
    <<"épinay-sur-seine", "93">>, <<"livry-gargan", "93">>, <<"clichy-sous-bois", "93">>,
    <<"stains", "93">>, <<"rosny-sous-bois", "93">>, <<"villepinte", "93">>,
    <<"la courneuve", "93">>, <<"le raincy", "93">>, <<"gagny", "93">>,
    <<"neuilly-sur-marne", "93">>, <<"pierrefitte-sur-seine", "93">>, <<"tremblay-en-france", "93">>,
    <<"villemomble", "93">>, <<"bagnolet", "93">>, <<"les lilas", "93">>,
    <<"romainville", "93">>, <<"argenteuil", "95">>, <<"sarcelles", "95">>,
    <<"cergy", "95">>, <<"garges-lès-gonesse", "95">>, <<"goussainville", "95">>,
    <<"franconville", "95">>, <<"bezons", "95">>, <<"villiers-le-bel", "95">>,
    <<"ermont", "95">>, <<"pontoise", "95">>, <<"herblay", "95">>,
    <<"taverny", "95">>, <<"saint-ouen-l'aumône", "95">>, <<"eaubonne", "95">>,
    <<"montmorency", "95">>, <<"enghien-les-bains", "95">>, <<"deuil-la-barre", "95">>,
    <<"cormeilles-en-parisis", "95">>, <<"saint-gratien", "95">>, <<"soisy-sous-montmorency", "95">>
  >>

\* ParisCheck without its second test
ParisCheckArrondissementOnly(name) == Contains(name, "arrondissement de paris")

\* `if "arrondissement de paris" in name or "paris" in name`
ParisCheck(name) ==
  Contains(name, "arrondissement de paris") \/ Contains(name, "paris")

\* `if city in name` for the k-th item
CityMatches(name, k) == Contains(name, city_to_dept[k][1])

RECURSIVE FirstMatch(_, _, _)
\* The index of the first item, from item lo to item hi in definition order,
\* whose city is in name; 0 if there is none.  The range is halved so that
\* the evaluation stays shallow; the items are still tried left to right.
FirstMatch(name, lo, hi) ==
  IF lo > hi THEN 0
  ELSE IF lo = hi THEN (IF CityMatches(name, lo) THEN lo ELSE 0)
  ELSE LET mid   == (lo + hi) \div 2
           first == FirstMatch(name, lo, mid)
       IN  IF first # 0 THEN first ELSE FirstMatch(name, mid + 1, hi)

\* the loop over city_to_dept.items() and the final `return None`
ScanCities(name) ==
  LET k == FirstMatch(name, 1, Len(city_to_dept))
  IN  IF k = 0 THEN PyNone ELSE PyStr(city_to_dept[k][2])

extract_department_from_birthplace(birthplace_name) ==
  LET name == lower(birthplace_name)
  IN  IF ParisCheck(name) THEN PyStr("75") ELSE ScanCities(name)

---------------------------------------------------------------------------
(* categorize_diaspora *)

sub_saharan ==
  {
    "Mali", "Sénégal", "Côte d'Ivoire", "Cameroun", "Guinée",
    "République démocratique du Congo", "République du Congo", "Togo", "Gabon", "Bénin",
    "Ghana", "Nigeria", "Burkina Faso", "République centrafricaine", "Cap-Vert",
    "Guinée-Bissau", "Madagascar", "Maurice", "Guinée équatoriale", "Gambie",
    "Sierra Leone", "Liberia", "Niger", "Tchad", "Mauritanie",
    "Éthiopie", "Érythrée", "Somalie", "Kenya", "Ouganda",
    "Rwanda", "Burundi", "Tanzanie", "Zambie", "Zimbabwe",
    "Mozambique", "Angola", "Namibie", "Botswana", "Afrique du Sud",
    "Malawi", "Soudan", "Soudan du Sud"
  }

maghreb ==
  {
    "Algérie", "Maroc", "Tunisie", "Libye", "Égypte"
  }

overseas ==
  {
    "Guadeloupe", "Martinique", "Guyane", "Réunion", "Mayotte",
    "Haïti", "République dominicaine", "Jamaïque", "Trinité-et-Tobago", "Sainte-Lucie",
    "Dominique", "Grenade", "Barbade", "Antigua-et-Barbuda"
  }

comoros ==
  {
    "Comores"
  }

portugal ==
  {
    "Portugal"
  }

other_europe ==
  {
    "Espagne", "Italie", "Pologne", "Roumanie", "Serbie",
    "Croatie", "Bosnie-Herzégovine", "Albanie", "Grèce", "Turquie",
    "Arménie", "Géorgie", "Russie", "Ukraine", "Moldavie",
    "Belgique", "Pays-Bas", "Allemagne", "Suisse", "Autriche",
    "Hongrie", "République tchèque", "Slovaquie", "Bulgarie", "Macédoine du Nord",
    "Monténégro", "Kosovo"
  }

asia ==
  {
    "Vietnam", "Cambodge", "Laos", "Chine", "Japon",
    "Corée du Sud", "Philippines", "Thaïlande", "Indonésie", "Malaisie",
    "Inde", "Pakistan", "Bangladesh", "Sri Lanka", "Afghanistan",
    "Iran", "Irak"
  }

\* the if/elif chain of the loop body: the label assigned for nat, None if no
\* branch is taken
RegionOf(nat) ==
  IF nat \in sub_saharan THEN PyStr("Sub-Saharan Africa")
  ELSE IF nat \in maghreb THEN PyStr("Maghreb")
  ELSE IF nat \in overseas \/ nat \in {"Haïti"} THEN PyStr("Caribbean/Overseas")
  ELSE IF nat \in comoros THEN PyStr("Comoros")
  ELSE IF nat \in portugal THEN PyStr("Portugal")
  ELSE IF nat \in other_europe THEN PyStr("Other Europe")
  ELSE IF nat \in asia THEN PyStr("Asia")
  ELSE PyNone

\* InitialResult flagging any player that has a nationality
InitialResultAnyNationality(nationalities) ==
  [is_dual_national   |-> Len(nationalities) > 0,
   nationalities      |-> nationalities,
   diaspora_region    |-> PyNone,
   diaspora_countries |-> <<>>]

\* the result dict before the loop
InitialResult(nationalities) ==
  [is_dual_national   |-> Len(nationalities) > 1,
   nationalities      |-> nationalities,
   diaspora_region    |-> PyNone,
   diaspora_countries |-> <<>>]

\* CategorizeStep keeping the first region it assigned
CategorizeStepFirstWins(result, nat) ==
  IF nat = "France" THEN result
  ELSE IF RegionOf(nat) # PyNone
    THEN [result EXCEPT !.diaspora_region =
                          IF @ = PyNone THEN RegionOf(nat) ELSE @,
                        !.diaspora_countries = Append(@, nat)]
  ELSE result

\* CategorizeStep keeping only the countries of the region it retains
CategorizeStepSameRegionOnly(result, nat) ==
  IF nat = "France" THEN result
  ELSE IF RegionOf(nat) # PyNone
    THEN [result EXCEPT !.diaspora_region = RegionOf(nat),
                        !.diaspora_countries =
                          IF result.diaspora_region = RegionOf(nat)
                            THEN Append(@, nat)
                            ELSE <<nat>>]
  ELSE result

\* CategorizeStep recording every foreign nationality as a diaspora country
CategorizeStepEveryForeign(result, nat) ==
  IF nat = "France" THEN result
  ELSE IF RegionOf(nat) # PyNone
    THEN [result EXCEPT !.diaspora_region = RegionOf(nat),
                        !.diaspora_countries = Append(@, nat)]
  ELSE [result EXCEPT !.diaspora_countries = Append(@, nat)]

\* one iteration of `for nat in nationalities`
CategorizeStep(result, nat) ==
  IF nat = "France" THEN result
  ELSE IF RegionOf(nat) # PyNone
    THEN [result EXCEPT !.diaspora_region = RegionOf(nat),
                        !.diaspora_countries = Append(@, nat)]
  ELSE result

RECURSIVE CategorizeFrom(_, _, _)
CategorizeFrom(result, nationalities, k) ==
  IF k > Len(nationalities) THEN result
  ELSE CategorizeFrom(CategorizeStep(result, nationalities[k]), nationalities, k + 1)

categorize_diaspora(nationalities) ==
  CategorizeFrom(InitialResult(nationalities), nationalities, 1)

---------------------------------------------------------------------------
(* load_data *)

PyList(l) == [t |-> "list", v |-> l]

\* `return data.get("players", data)`: only a dict has .get
load_data(data) ==
  IF data.t = "dict"
    THEN [raised |-> "none", value |-> Get(data.v, "players", data.v)]
    ELSE [raised |-> "AttributeError", value |-> <<>>]

---------------------------------------------------------------------------
(* int(dob[:4]) *)

DigitChars == "0123456789"

IsDigit(c) == \E i \in 1..Len(DigitChars) : SubSeq(DigitChars, i, i) = c

DigitValue(c) ==
  (CHOOSE i \in 1..Len(DigitChars) : SubSeq(DigitChars, i, i) = c) - 1

RECURSIVE lstrip(_)
lstrip(s) ==
  IF Len(s) > 0 /\ SubSeq(s, 1, 1) = " " THEN lstrip(SubSeq(s, 2, Len(s))) ELSE s

RECURSIVE rstrip(_)
rstrip(s) ==
  IF Len(s) > 0 /\ SubSeq(s, Len(s), Len(s)) = " "
    THEN rstrip(SubSeq(s, 1, Len(s) - 1))
    ELSE s

\* the literal without surrounding blanks and without its sign
Unsigned(s) ==
  LET t == rstrip(lstrip(s))
  IN  IF Len(t) > 0 /\ SubSeq(t, 1, 1) \in {"+", "-"} THEN SubSeq(t, 2, Len(t)) ELSE t

IsNegative(s) ==
  LET t == lstrip(s) IN Len(t) > 0 /\ SubSeq(t, 1, 1) = "-"

\* whether int(s) accepts s: decimal digits, single underscores between digits
IsIntLiteral(s) ==
  LET u == Unsigned(s)
      ch(i) == SubSeq(u, i, i)
  IN  /\ Len(u) > 0
      /\ \A i \in 1..Len(u) :
            \/ IsDigit(ch(i))
            \/ /\ ch(i) = "_"
               /\ 1 < i /\ i < Len(u)
               /\ IsDigit(ch(i - 1)) /\ IsDigit(ch(i + 1))

RECURSIVE DigitsValue(_, _)
DigitsValue(u, acc) ==
  IF Len(u) = 0 THEN acc
  ELSE IF SubSeq(u, 1, 1) = "_" THEN DigitsValue(SubSeq(u, 2, Len(u)), acc)
  ELSE DigitsValue(SubSeq(u, 2, Len(u)), 10 * acc + DigitValue(SubSeq(u, 1, 1)))

\* int(s) for an accepted s
IntValue(s) ==
  IF IsNegative(s) THEN 0 - DigitsValue(Unsigned(s), 0) ELSE DigitsValue(Unsigned(s), 0)

\* dob[:4]
Prefix4(dob) == SubSeq(dob, 1, IF Len(dob) < 4 THEN Len(dob) ELSE 4)

---------------------------------------------------------------------------
(* analyze_dataset: the body of `for player in players` *)

\* `dob and len(dob) >= 4`
HasYearPrefix(dob) == Truthy(dob) /\ Len(dob.v) >= 4

\* lines 306-312: the year is appended unless int() raises ValueError, which
\* the except clause swallows
BirthYearsAfter(years, dob) ==
  IF HasYearPrefix(dob) /\ IsIntLiteral(Prefix4(dob.v))
    THEN Append(years, IntValue(Prefix4(dob.v)))
    ELSE years

\* line 332: `int(dob[:4]) if dob and len(dob) >= 4 else None`, outside any try
EnrichedBirthYear(dob) ==
  IF HasYearPrefix(dob)
    THEN IF IsIntLiteral(Prefix4(dob.v))
           THEN [raised |-> "none", value |-> PyInt(IntValue(Prefix4(dob.v)))]
           ELSE [raised |-> "ValueError", value |-> PyNone]
    ELSE [raised |-> "none", value |-> PyNone]

\* lines 315-317
BirthplaceName(player) ==
  LET birthplace == Get(player, "birthplace", PyDict(EmptyDict))
  IN  IF birthplace.t = "dict" THEN Get(birthplace.v, "name", "") ELSE ""

\* DepartmentsAfter counting a department only the first time it is met
DepartmentsAfterFirstOnly(depts, dept) ==
  IF Truthy(dept) /\ dept.v \notin DOMAIN depts THEN Incr(depts, dept.v) ELSE depts

\* DepartmentsAfter with a bucket for the players it could not resolve
DepartmentsAfterWithUnresolved(depts, dept) ==
  IF Truthy(dept) THEN Incr(depts, dept.v) ELSE Incr(depts, "unresolved")

\* lines 318-319
DepartmentsAfter(depts, dept) ==
  IF Truthy(dept) THEN Incr(depts, dept.v) ELSE depts

\* RegionsAfter counting the region once for each matching country
RegionsAfterPerCountry(regions, diaspora) ==
  IF Truthy(diaspora.diaspora_region)
    THEN IncrBy(regions, diaspora.diaspora_region.v, Len(diaspora.diaspora_countries))
    ELSE regions

\* lines 323-324
RegionsAfter(regions, diaspora) ==
  IF Truthy(diaspora.diaspora_region)
    THEN Incr(regions, diaspora.diaspora_region.v)
    ELSE regions

RECURSIVE CountAll(_, _, _)
\* `for country in ...: diaspora_countries[country] += 1` from item k on
CountAll(counts, countries, k) ==
  IF k > Len(countries) THEN counts
  ELSE CountAll(Incr(counts, countries[k]), countries, k + 1)

\* lines 323-326
CountriesAfter(counts, diaspora) ==
  IF Truthy(diaspora.diaspora_region)
    THEN CountAll(counts, diaspora.diaspora_countries, 1)
    ELSE counts

\* lines 329-336: {**player, "department": ..., ...}
Enriched(player, dept, birth_year, diaspora) ==
  [department         |-> dept,
   birth_year         |-> birth_year,
   is_dual_national   |-> diaspora.is_dual_national,
   diaspora_region    |-> diaspora.diaspora_region,
   diaspora_countries |-> diaspora.diaspora_countries] @@ player

\* RawAfter when the derived keys are written into the raw record itself
RawAfterUpdatedInPlace(player, enriched) == enriched

\* the raw record once its iteration is over: the dict display of lines
\* 329-336 builds a new dict, and nothing in the body assigns to `player`,
\* to its nationalities list (categorize_diaspora appends to a list of its
\* own, line 233) or to its birthplace object
RawAfter(player, enriched) == player

\* AppendEnriched putting the newest record first
PrependEnriched(list, enriched) == <<enriched>> \o list

\* line 337: enriched_players.append(enriched)
AppendEnriched(list, enriched) == Append(list, enriched)

\* the birthplace names of the input documents ("" when there is none)
SampleBirthplaceNames == {"", "75003 Paris", "Bondy", "Unknown City, Mars"}

\* extract_department_from_birthplace on those names, evaluated once
ResolvedSamples ==
  [n \in SampleBirthplaceNames |-> extract_department_from_birthplace(n)]

\* line 317: the call of extract_department_from_birthplace
ResolveDepartment(bp_name) ==
  IF bp_name \in DOMAIN ResolvedSamples
    THEN ResolvedSamples[bp_name]
    ELSE extract_department_from_birthplace(bp_name)

\* One iteration of the loop (lines 297-337).  The ValueError of line 332
\* propagates out of analyze_dataset: no handler encloses it.
ProcessPlayer ==
  /\ pc = "analyze"
  /\ idx < Len(players)
  /\ LET player   == players[idx + 1]
         nats     == Get(player, "nationalities", <<>>)
         dob      == Get(player, "date_of_birth", PyStr(""))
         dept     == ResolveDepartment(BirthplaceName(player))
         diaspora == categorize_diaspora(nats)
         year     == EnrichedBirthYear(dob)
     IN  /\ nationalities_all' = nationalities_all \o nats
         /\ dual_nationals' = IF Len(nats) > 1 THEN dual_nationals + 1 ELSE dual_nationals
         /\ birth_years' = BirthYearsAfter(birth_years, dob)
         /\ departments' = DepartmentsAfter(departments, dept)
         /\ diaspora_regions' = RegionsAfter(diaspora_regions, diaspora)
         /\ diaspora_countries' = CountriesAfter(diaspora_countries, diaspora)
         /\ IF year.raised = "none"
              THEN /\ enriched_players' =
                        AppendEnriched(enriched_players,
                                       Enriched(player, dept, year.value, diaspora))
                   /\ players' =
                        [players EXCEPT ![idx + 1] =
                           RawAfter(player, Enriched(player, dept, year.value, diaspora))]
                   /\ idx' = idx + 1
                   /\ UNCHANGED <<pc, error>>
              ELSE /\ pc' = "raised"
                   /\ error' = year.raised
                   /\ UNCHANGED <<enriched_players, players, idx>>
  /\ UNCHANGED <<doc, results, now, analysis_date, resolver_vars,
                 classifier_vars, aux_vars>>

---------------------------------------------------------------------------
(* analyze_dataset: compiling the results (lines 339-390) *)

Range(seq) == {seq[i] : i \in DOMAIN seq}

\* Counter(seq)
Counter(seq) ==
  [x \in Range(seq) |-> Cardinality({i \in DOMAIN seq : seq[i] = x})]

RECURSIVE SumValues(_)
\* sum(d.values())
SumValues(d) ==
  IF DOMAIN d = {} THEN 0
  ELSE LET k == CHOOSE key \in DOMAIN d : TRUE
       IN  d[k] + SumValues([key \in DOMAIN d \ {k} |-> d[key]])

RECURSIVE BitLength(_)
\* the number of binary digits of n
BitLength(n) == IF n = 0 THEN 0 ELSE 1 + BitLength(n \div 2)

RECURSIVE BinaryDigits(_, _, _, _)
\* k more binary digits of r/q by long division: <<remainder, last digit>>
BinaryDigits(r, q, k, last) ==
  IF k = 0 THEN <<r, last>>
  ELSE BinaryDigits((2 * r) % q, q, k - 1, (2 * r) \div q)

RECURSIVE AfterLeadingDigit(_, _)
\* the remainder after the first non-zero binary digit of r/q, 0 < r < q
AfterLeadingDigit(r, q) ==
  IF 2 * r >= q THEN 2 * r - q ELSE AfterLeadingDigit(2 * r, q)

\* `100 * count / total` is the double nearest to the quotient p/q (53
\* significant binary digits, a tie to the even one); FloatError is the sign
\* of that double minus the exact quotient
FloatError(p, q) ==
  LET n     == p \div q
      start == IF n > 0 THEN <<p % q, n % 2, 53 - BitLength(n)>>
               ELSE <<AfterLeadingDigit(p % q, q), 1, 52>>
      kept  == BinaryDigits(start[1], q, start[3], start[2])
      guard == (2 * kept[1]) \div q
      rest  == (2 * kept[1]) % q
  IN  IF p % q = 0 THEN 0
      ELSE IF guard = 0 THEN (IF rest = 0 THEN 0 ELSE -1)
      ELSE IF rest > 0 \/ kept[2] = 1 THEN 1 ELSE -1

\* RoundedPct cutting the digits after the first decimal
TruncatedPct(count, total) == (1000 * count) \div total

\* round(100 * count / total, 1) in tenths of a percent (250 is 25.0), total > 0.
\* round() rounds the double correctly: when the quotient is halfway between
\* two tenths the double's error decides, and an exact double goes to the
\* even tenth
RoundedPct(count, total) ==
  LET scaled == 1000 * count
      low    == scaled \div total
      rest   == scaled - low * total
      err    == FloatError(100 * count, total)
  IN  IF 2 * rest < total THEN low
      ELSE IF 2 * rest > total THEN low + 1
      ELSE IF err > 0 THEN low + 1
      ELSE IF err < 0 THEN low
      ELSE IF low % 2 = 0 THEN low ELSE low + 1

TopCount == 20

\* dict(Counter(counts).most_common(n)): the n entries with the largest counts
MostCommon(counts, n) ==
  IF Cardinality(DOMAIN counts) <= n THEN counts
  ELSE LET kept == CHOOSE S \in SUBSET DOMAIN counts :
                     /\ Cardinality(S) = n
                     /\ \A a \in S, b \in DOMAIN counts \ S : counts[a] >= counts[b]
       IN  [key \in kept |-> counts[key]]

RECURSIVE FiveYearCountsByDecade(_, _)
\* FiveYearCounts with buckets of ten years
FiveYearCountsByDecade(year_counts, decade_counts) ==
  IF DOMAIN year_counts = {} THEN decade_counts
  ELSE LET year == CHOOSE y \in DOMAIN year_counts : TRUE
       IN  FiveYearCountsByDecade([y \in DOMAIN year_counts \ {year} |-> year_counts[y]],
                                  IncrBy(decade_counts, (year \div 10) * 10, year_counts[year]))

RECURSIVE FiveYearCounts(_, _)
\* lines 358-361: decade_counts[(year // 5) * 5] += count, over year_counts
FiveYearCounts(year_counts, decade_counts) ==
  IF DOMAIN year_counts = {} THEN decade_counts
  ELSE LET year == CHOOSE y \in DOMAIN year_counts : TRUE
       IN  FiveYearCounts([y \in DOMAIN year_counts \ {year} |-> year_counts[y]],
                          IncrBy(decade_counts, (year \div 5) * 5, year_counts[year]))

\* min(birth_years) / max(birth_years)
MinOf(years) == CHOOSE y \in Range(years) : \A z \in Range(years) : y <= z

MaxOf(years) == CHOOSE y \in Range(years) : \A z \in Range(years) : y >= z

dept_names ==
  [c \in {"75", "77", "78", "91", "92", "93", "94", "95"} |->
     CASE c = "75" -> "Paris"
       [] c = "77" -> "Seine-et-Marne"
       [] c = "78" -> "Yvelines"
       [] c = "91" -> "Essonne"
       [] c = "92" -> "Hauts-de-Seine"
       [] c = "93" -> "Seine-Saint-Denis"
       [] c = "94" -> "Val-de-Marne"
       [] c = "95" -> "Val-d'Oise"]

\* results["demographics"]
Demographics ==
  [total_players     |-> Len(players),
   dual_nationals    |-> dual_nationals,
   dual_national_pct |-> RoundedPct(dual_nationals, Len(players)),
   top_nationalities |-> MostCommon(Counter(nationalities_all), TopCount)]

\* results["diaspora"]
Diaspora ==
  [by_region      |-> diaspora_regions,
   by_country     |-> MostCommon(diaspora_countries, TopCount),
   total_diaspora |-> SumValues(diaspora_regions),
   diaspora_pct   |-> RoundedPct(SumValues(diaspora_regions), Len(players))]

\* Temporal stamped with the clock reading of the call
TemporalWithDate ==
  [by_year        |-> Counter(birth_years),
   by_5year       |-> FiveYearCounts(Counter(birth_years), <<>>),
   earliest_birth |-> IF Len(birth_years) > 0 THEN PyInt(MinOf(birth_years)) ELSE PyNone,
   latest_birth   |-> IF Len(birth_years) > 0 THEN PyInt(MaxOf(birth_years)) ELSE PyNone,
   computed_at    |-> analysis_date]

\* results["temporal"]
Temporal ==
  [by_year        |-> Counter(birth_years),
   by_5year       |-> FiveYearCounts(Counter(birth_years), <<>>),
   earliest_birth |-> IF Len(birth_years) > 0 THEN PyInt(MinOf(birth_years)) ELSE PyNone,
   latest_birth   |-> IF Len(birth_years) > 0 THEN PyInt(MaxOf(birth_years)) ELSE PyNone]

\* Geographic holding nothing but the per-department entries
GeographicCountsOnly ==
  [dept \in DOMAIN departments |->
     [count |-> departments[dept], name |-> Get(dept_names, dept, dept)]]

\* results["geographic"]
Geographic ==
  [by_department |->
     [dept \in DOMAIN departments |->
        [count |-> departments[dept], name |-> Get(dept_names, dept, dept)]],
   missing_departments |-> <<"93", "95">>]

\* results["metadata"]; analysis_date is the clock reading of line 272
Metadata ==
  [total_players |-> Len(players),
   analysis_date |-> analysis_date,
   data_source   |-> "Wikidata",
   limitations   |-> <<"Missing Seine-Saint-Denis (93) - rate limited",
                       "Missing Val-d'Oise (95) - rate limited",
                       "Only includes players with Wikidata entries",
                       "Birthplace != where player was raised/trained">>]

\* Compile giving percentages of 0 for an empty list instead of dividing
CompileZeroForEmpty ==
  /\ pc = "analyze"
  /\ idx = Len(players)
  /\ pc' = "returned"
  /\ results' =
       IF Len(players) = 0
         THEN [metadata     |-> Metadata,
               demographics |-> [total_players |-> 0, dual_nationals |-> 0,
                                 dual_national_pct |-> 0, top_nationalities |-> <<>>],
               diaspora     |-> [by_region |-> <<>>, by_country |-> <<>>,
                                 total_diaspora |-> 0, diaspora_pct |-> 0],
               temporal     |-> Temporal,
               geographic   |-> Geographic]
         ELSE [metadata     |-> Metadata,
               demographics |-> Demographics,
               diaspora     |-> Diaspora,
               temporal     |-> Temporal,
               geographic   |-> Geographic]
  /\ UNCHANGED <<doc, error, players, idx, dual_nationals, birth_years,
                 departments, diaspora_regions, diaspora_countries,
                 nationalities_all, enriched_players, now, analysis_date,
                 resolver_vars, classifier_vars, aux_vars>>

\* Lines 339-390, once the loop has ended.  With no player the division of
\* line 345 raises ZeroDivisionError.
Compile ==
  /\ pc = "analyze"
  /\ idx = Len(players)
  /\ IF Len(players) = 0
       THEN /\ pc' = "raised"
            /\ error' = "ZeroDivisionError"
            /\ UNCHANGED results
       ELSE /\ pc' = "returned"
            /\ results' = [metadata     |-> Metadata,
                           demographics |-> Demographics,
                           diaspora     |-> Diaspora,
                           temporal     |-> Temporal,
                           geographic   |-> Geographic]
            /\ UNCHANGED error
  /\ UNCHANGED <<doc, players, idx, dual_nationals, birth_years, departments,
                 diaspora_regions, diaspora_countries, nationalities_all,
                 enriched_players, now, analysis_date, resolver_vars,
                 classifier_vars, aux_vars>>

\* main, lines 499-506: load_data, then the locals of analyze_dataset
\* (lines 269-295)
LoadData ==
  /\ pc = "start"
  /\ LET loaded == load_data(doc)
     IN  IF loaded.raised = "none"
           THEN /\ players' = loaded.value
                /\ analysis_date' = PyInt(now)
                /\ pc' = "analyze"
                /\ UNCHANGED error
           ELSE /\ pc' = "raised"
                /\ error' = loaded.raised
                /\ UNCHANGED <<players, analysis_date>>
  /\ UNCHANGED <<doc, idx, dual_nationals, birth_years, departments,
                 diaspora_regions, diaspora_countries, nationalities_all,
                 enriched_players, results, now, resolver_vars, classifier_vars,
                 aux_vars>>

---------------------------------------------------------------------------
(* The input documents of the pipeline *)

MaxPlayers == 2

SampleNationalities ==
  {<<>>, <<"France">>, <<"France", "Cameroun">>, <<"Algérie", "Brésil", "Mali">>}

NationalityFields == {[nationalities |-> n] : n \in SampleNationalities}

\* date_of_birth: null, an unparsable value, two dates
DateFields ==
  {[date_of_birth |-> d] :
     d \in {PyNone, PyStr("abcd-01-01"), PyStr("1994-03-01"), PyStr("1998-07-12")}}

\* birthplace objects as the collector writes them
BirthplaceFields ==
  {[birthplace |-> PyDict([name |-> n, wikidata_id |-> "Q90"])] :
     n \in SampleBirthplaceNames \ {""}}

\* a record with none of the three keys
BareFields == <<<<>>, <<>>, <<>>>>

\* a record whose birthplace is not an object, with a null date and no nationality
DegenerateFields ==
  <<[nationalities |-> <<>>], [date_of_birth |-> PyNone], [birthplace |-> PyStr("Paris")]>>

\* the fields a raw record may carry besides its identifier and name
FieldChoices ==
  (NationalityFields \X DateFields \X BirthplaceFields)
    \cup {BareFields, DegenerateFields}

\* the raw record at position i of the document
RawRecord(i, fields) ==
  [wikidata_id |-> "Q" \o ToString(i), name |-> "Player " \o ToString(i)]
    @@ fields[1] @@ fields[2] @@ fields[3]

\* the raw record list built from one choice of fields per position
PlayerList(choice) == [i \in DOMAIN choice |-> RawRecord(i, choice[i])]

\* {"players": [...]} or a bare [...]
Document(list, keyed) ==
  IF keyed THEN PyDict([players |-> list]) ELSE PyList(list)

ResolverIdle ==
  /\ r_input = ""
  /\ r_pc = "idle"
  /\ r_name = ""
  /\ r_k = 0
  /\ r_result = PyNone

ClassifierIdle ==
  /\ c_input = <<>>
  /\ c_pc = "idle"
  /\ c_pos = 0
  /\ c_result = <<>>

\* no second call of analyze_dataset
RerunIdle ==
  /\ run = 1
  /\ first_results = <<>>
  /\ first_enriched = <<>>

PercentIdle ==
  /\ p_pc = "idle"
  /\ p_count = 0
  /\ p_total = 0
  /\ p_pct = 0

\* analyze_dataset called on a list in memory: no file is read or written
IoIdle ==
  /\ input_file = PyNone
  /\ files = <<>>
  /\ out_k = 0

StatsIdle ==
  /\ stats_input = <<>>
  /\ stats_pc = "idle"
  /\ stats_results = <<>>
  /\ stats_rows = <<>>

DashboardIdle ==
  /\ d_app = "none"
  /\ d_rows = <<>>
  /\ d_pc = "idle"
  /\ d_selection = <<>>
  /\ d_filtered = <<>>
  /\ d_error = "none"

CollectionIdle ==
  /\ k_script = "none"
  /\ k_pc = "idle"
  /\ k_pos = 0
  /\ k_all = <<>>
  /\ k_log = <<>>
  /\ k_returned = <<>>
  /\ k_saved = PyNone
  /\ k_main = PyNone
  /\ k_merged = <<>>

ParallelIdle ==
  /\ par_pc = "idle"
  /\ par_done = {}
  /\ par_result = <<>>

RateLimitIdle ==
  /\ g_pc = "idle"
  /\ g_last = 0
  /\ g_clock = 0
  /\ g_sent = 0
  /\ g_done = 0
  /\ g_outcome = "none"

AuxIdle ==
  /\ RerunIdle
  /\ PercentIdle
  /\ IoIdle
  /\ StatsIdle
  /\ DashboardIdle
  /\ CollectionIdle
  /\ ParallelIdle
  /\ RateLimitIdle

\* the pipeline before load_data returns; the clock starts with the process
PipelineAtStart ==
  /\ pc = "start"
  /\ error = "none"
  /\ players = <<>>
  /\ idx = 0
  /\ dual_nationals = 0
  /\ birth_years = <<>>
  /\ departments = <<>>
  /\ diaspora_regions = <<>>
  /\ diaspora_countries = <<>>
  /\ nationalities_all = <<>>
  /\ enriched_players = <<>>
  /\ results = <<>>
  /\ now = 0
  /\ analysis_date = PyNone

Init ==
  /\ \E n \in 0..MaxPlayers : \E choice \in [1..n -> FieldChoices] :
       \E keyed \in BOOLEAN : doc = Document(PlayerList(choice), keyed)
  /\ PipelineAtStart
  /\ ResolverIdle
  /\ ClassifierIdle
  /\ AuxIdle

Next ==
  \/ LoadData
  \/ ProcessPlayer
  \/ Compile

Spec == Init /\ [][Next]_vars

---------------------------------------------------------------------------
(* extract_department_from_birthplace, statement by statement *)

PipelineIdle ==
  /\ doc = PyNone
  /\ pc = "idle"
  /\ error = "none"
  /\ players = <<>>
  /\ idx = 0
  /\ dual_nationals = 0
  /\ birth_years = <<>>
  /\ departments = <<>>
  /\ diaspora_regions = <<>>
  /\ diaspora_countries = <<>>
  /\ nationalities_all = <<>>
  /\ enriched_players = <<>>
  /\ results = <<>>
  /\ now = 0
  /\ analysis_date = PyNone

MaxNameWords == 2

\* words birthplace names are made of
NameWords ==
  {"Paris", "75003", "Bondy", "Clichy-sous-Bois", "Viry-Châtillon", "ÉVRY",
   "Orly", "Unknown City,", "Mars", "Cormeilles-en-Parisis"}

RECURSIVE JoinWords(_)
\* " ".join(words)
JoinWords(words) ==
  IF Len(words) = 0 THEN ""
  ELSE IF Len(words) = 1 THEN words[1]
  ELSE words[1] \o " " \o JoinWords(Tail(words))

\* the city names of the table themselves
CityNames == {city_to_dept[k][1] : k \in DOMAIN city_to_dept}

\* lines 30-34: lower-casing and the Paris test
ResolverLower ==
  /\ r_pc = "start"
  /\ r_name' = lower(r_input)
  /\ IF ParisCheck(r_name')
       THEN /\ r_result' = PyStr("75")
            /\ r_pc' = "done"
            /\ UNCHANGED r_k
       ELSE /\ r_pc' = "scan"
            /\ r_k' = 1
            /\ UNCHANGED r_result
  /\ UNCHANGED <<r_input, pipeline_vars, classifier_vars, aux_vars>>

\* lines 180-182: one iteration of `for city, dept in city_to_dept.items()`
ResolverTryCity ==
  /\ r_pc = "scan"
  /\ r_k <= Len(city_to_dept)
  /\ IF CityMatches(r_name, r_k)
       THEN /\ r_result' = PyStr(city_to_dept[r_k][2])
            /\ r_pc' = "done"
            /\ UNCHANGED r_k
       ELSE /\ r_k' = r_k + 1
            /\ UNCHANGED <<r_result, r_pc>>
  /\ UNCHANGED <<r_input, r_name, pipeline_vars, classifier_vars, aux_vars>>

\* line 184: `return None` once the items are exhausted
ResolverNoMatch ==
  /\ r_pc = "scan"
  /\ r_k > Len(city_to_dept)
  /\ r_result' = PyNone
  /\ r_pc' = "done"
  /\ UNCHANGED <<r_input, r_name, r_k, pipeline_vars, classifier_vars, aux_vars>>

InitResolver ==
  /\ PipelineIdle
  /\ ClassifierIdle
  /\ AuxIdle
  /\ \/ \E n \in 0..MaxNameWords : \E words \in [1..n -> NameWords] :
          r_input = JoinWords(words)
     \/ r_input \in CityNames
  /\ r_pc = "start"
  /\ r_name = ""
  /\ r_k = 0
  /\ r_result = PyNone

NextResolver ==
  \/ ResolverLower
  \/ ResolverTryCity
  \/ ResolverNoMatch

SpecResolver == InitResolver /\ [][NextResolver]_vars

---------------------------------------------------------------------------
(* categorize_diaspora, statement by statement *)

MaxNationalities == 3

\* France, one or two countries of each region table, one country of none
ClassifierCountries ==
  {"France", "Cameroun", "Mali", "Algérie", "Haïti", "Comores", "Portugal",
   "Italie", "Vietnam", "Brésil"}

\* lines 231-236: the result dict
ClassifierBegin ==
  /\ c_pc = "start"
  /\ c_result' = InitialResult(c_input)
  /\ c_pos' = 0
  /\ c_pc' = "loop"
  /\ UNCHANGED <<c_input, pipeline_vars, resolver_vars, aux_vars>>

\* lines 238-261: one iteration of `for nat in nationalities`
ClassifierVisit ==
  /\ c_pc = "loop"
  /\ c_pos < Len(c_input)
  /\ c_result' = CategorizeStep(c_result, c_input[c_pos + 1])
  /\ c_pos' = c_pos + 1
  /\ UNCHANGED <<c_input, c_pc, pipeline_vars, resolver_vars, aux_vars>>

\* line 263: `return result`
ClassifierReturn ==
  /\ c_pc = "loop"
  /\ c_pos = Len(c_input)
  /\ c_pc' = "done"
  /\ UNCHANGED <<c_input, c_pos, c_result, pipeline_vars, resolver_vars, aux_vars>>

InitClassifier ==
  /\ PipelineIdle
  /\ ResolverIdle
  /\ AuxIdle
  /\ \E n \in 0..MaxNationalities : c_input \in [1..n -> ClassifierCountries]
  /\ c_pc = "start"
  /\ c_pos = 0
  /\ c_result = <<>>

NextClassifier ==
  \/ ClassifierBegin
  \/ ClassifierVisit
  \/ ClassifierReturn

SpecClassifier == InitClassifier /\ [][NextClassifier]_vars

\* the stepwise runs return what the operators used by analyze_dataset compute
StepwiseAgrees ==
  /\ r_pc = "done" => r_result = extract_department_from_birthplace(r_input)
  /\ c_pc = "done" => c_result = categorize_diaspora(c_input)

\* the pipeline and the classifier run; for properties of the classification
\* that speak of both the returned dict and the enriched records
InitEnrichment == Init \/ InitClassifier

NextEnrichment == Next \/ NextClassifier

SpecEnrichment == InitEnrichment /\ [][NextEnrichment]_vars

---------------------------------------------------------------------------
(* A small pool of raw records, for the runs that go beyond one call of    *)
(* analyze_dataset                                                         *)

\* a record as scripts/retry_93_95.py merges it into the input file: it
\* carries the code of the queried departement under "department"
RetryFields ==
  <<[nationalities |-> <<"France", "Mali">>],
    [date_of_birth |-> PyStr("2001-05-20")],
    [birthplace |-> PyDict([name |-> "Unknown City, Mars", wikidata_id |-> "Q61"]),
     department |-> PyStr("93")]>>

CoreFieldChoices ==
  {<<[nationalities |-> <<"France", "Cameroun">>],
     [date_of_birth |-> PyStr("1994-03-01")],
     [birthplace |-> PyDict([name |-> "Bondy", wikidata_id |-> "Q90"])]>>,
   <<[nationalities |-> <<"France">>],
     [date_of_birth |-> PyStr("1998-07-12")],
     [birthplace |-> PyDict([name |-> "75003 Paris", wikidata_id |-> "Q90"])]>>,
   <<[nationalities |-> <<"Algérie", "Brésil", "Mali">>],
     [date_of_birth |-> PyNone],
     [birthplace |-> PyDict([name |-> "Unknown City, Mars", wikidata_id |-> "Q90"])]>>,
   <<[nationalities |-> <<"France">>],
     [date_of_birth |-> PyStr("abcd-01-01")],
     [birthplace |-> PyDict([name |-> "Bondy", wikidata_id |-> "Q90"])]>>,
   BareFields,
   RetryFields}

\* the documents {"players": [...]} over that pool
CoreDocuments ==
  UNION {{Document(PlayerList(choice), TRUE) : choice \in [1..n -> CoreFieldChoices]} :
           n \in 0..MaxPlayers}

---------------------------------------------------------------------------
(* analyze_dataset called a second time on the same list *)

MaxClock == 2

\* time passes
ClockTick ==
  /\ now < MaxClock
  /\ now' = now + 1
  /\ UNCHANGED <<doc, pc, error, players, idx, dual_nationals, birth_years,
                 departments, diaspora_regions, diaspora_countries,
                 nationalities_all, enriched_players, results, analysis_date,
                 resolver_vars, classifier_vars, aux_vars>>

\* the caller keeps what the first call returned and calls analyze_dataset
\* again with the same list: lines 269-295 run afresh
CallAgain ==
  /\ pc = "returned"
  /\ run = 1
  /\ run' = 2
  /\ first_results' = results
  /\ first_enriched' = enriched_players
  /\ analysis_date' = PyInt(now)
  /\ results' = <<>>
  /\ idx' = 0
  /\ dual_nationals' = 0
  /\ birth_years' = <<>>
  /\ departments' = <<>>
  /\ diaspora_regions' = <<>>
  /\ diaspora_countries' = <<>>
  /\ nationalities_all' = <<>>
  /\ enriched_players' = <<>>
  /\ pc' = "analyze"
  /\ UNCHANGED <<doc, error, players, now, resolver_vars, classifier_vars,
                 percent_vars, io_vars, stats_vars, dashboard_vars,
                 collection_vars, parallel_vars, ratelimit_vars>>

InitRerun ==
  /\ doc \in CoreDocuments
  /\ PipelineAtStart
  /\ ResolverIdle
  /\ ClassifierIdle
  /\ AuxIdle

NextRerun ==
  \/ Next
  \/ ClockTick
  \/ CallAgain

SpecRerun == InitRerun /\ [][NextRerun]_vars

---------------------------------------------------------------------------
(* round(100 * count / total, 1): lines 345, 353 and 410 *)

MaxTotal == 48

\* the size the claim names, the size of the published dataset, and a size
\* at which the quotient can fall halfway between two tenths
DatasetSizes == {1000, 1165, 2000}

PctSites == {"dual_national_pct", "diaspora_pct", "region pct"}

\* one of the three statements computes its percentage
ComputePct ==
  /\ p_pc = "start"
  /\ p_pct' = RoundedPct(p_count, p_total)
  /\ \E site \in PctSites : p_pc' = site
  /\ UNCHANGED <<p_count, p_total, pipeline_vars, resolver_vars, classifier_vars,
                 rerun_vars, io_vars, stats_vars, dashboard_vars,
                 collection_vars, parallel_vars, ratelimit_vars>>

\* a count of players among a non-empty list of players
InitPercent ==
  /\ PipelineIdle
  /\ ResolverIdle
  /\ ClassifierIdle
  /\ RerunIdle /\ IoIdle /\ StatsIdle /\ DashboardIdle /\ CollectionIdle
  /\ ParallelIdle
  /\ RateLimitIdle
  /\ p_total \in (1..MaxTotal) \cup DatasetSizes
  /\ p_count \in 0..p_total
  /\ p_pc = "start"
  /\ p_pct = 0

NextPercent ==
  \/ ComputePct

SpecPercent == InitPercent /\ [][NextPercent]_vars

---------------------------------------------------------------------------
(* main: reading the input file and writing the five output files *)

\* the output files in the order main writes them (lines 512-518, 473-479)
OutputNames ==
  <<"analysis_results.json", "article_stats.md", "idf_footballers.csv",
    "idf_footballers.parquet", "idf_footballers.jsonl">>

\* lines 447-457: source key, exported column name
hf_columns ==
  <<<<"wikidata_id", "wikidata_id">>, <<"name", "name">>,
    <<"date_of_birth", "birth_date">>, <<"birth_year", "birth_year">>,
    <<"department", "birth_department">>, <<"nationalities", "nationalities">>,
    <<"is_dual_national", "is_dual_national">>,
    <<"diaspora_region", "diaspora_region">>,
    <<"diaspora_countries", "diaspora_countries">>>>

\* lines 444-467: df_hf.  The columns of pd.DataFrame(enriched) are the keys
\* some record has; a record without the key has a missing value there.  A
\* row is the sequence of its cells in column order.
ExportFrame(enriched) ==
  LET df_columns == UNION {DOMAIN enriched[i] : i \in DOMAIN enriched}
      IsAvailable(pair) == pair[1] \in df_columns
      available == SelectSeq(hf_columns, IsAvailable)
      BirthCity(rec) ==
        LET birthplace == Get(rec, "birthplace", PyNone)
        IN  IF birthplace.t = "dict" THEN Get(birthplace.v, "name", "") ELSE ""
  IN  [columns |-> [j \in DOMAIN available |-> available[j][2]] \o <<"birth_city">>,
       rows    |-> [i \in DOMAIN enriched |->
                      [j \in DOMAIN available |->
                         Get(enriched[i], available[j][1], PyNone)]
                        \o <<BirthCity(enriched[i])>>]]

\* CsvFile with the index column to_csv writes by default
CsvFileWithIndex(frame) ==
  [header |-> <<"">> \o frame.columns,
   lines  |-> [i \in DOMAIN frame.rows |-> <<ToString(i - 1)>> \o frame.rows[i]]]

\* to_csv(index=False): a header line, then one line of cells per row
CsvFile(frame) == [header |-> frame.columns, lines |-> frame.rows]

\* to_parquet(index=False): a schema, then the rows as column -> cell
ParquetFile(frame) ==
  [schema |-> frame.columns,
   rows   |-> [i \in DOMAIN frame.rows |->
                 [c \in Range(frame.columns) |->
                    frame.rows[i][CHOOSE j \in DOMAIN frame.columns :
                                    frame.columns[j] = c]]]]

\* to_json(orient="records", lines=True): one object per row, a key per column
JsonlFile(frame) ==
  [i \in DOMAIN frame.rows |->
     [j \in DOMAIN frame.columns |-> <<frame.columns[j], frame.rows[i][j]>>]]

\* what main writes into its k-th output file
OutputContent(k) ==
  CASE k = 1 -> [json |-> results]
    [] k = 2 -> [article_stats_of |-> results]
    [] k = 3 -> CsvFile(ExportFrame(enriched_players))
    [] k = 4 -> ParquetFile(ExportFrame(enriched_players))
    [] k = 5 -> JsonlFile(ExportFrame(enriched_players))

\* ParseInput reading an unparsable file as a document with one bare record
ParseInputLenient(file) ==
  CASE file.t = "missing"   -> [raised |-> "FileNotFoundError", value |-> PyNone]
    [] file.t = "malformed" ->
         [raised |-> "none",
          value |-> Document(PlayerList(<<BareFields>>), TRUE)]
    [] file.t = "json"      -> [raised |-> "none", value |-> file.v]

\* lines 20-21: open(filepath), json.load(f)
ParseInput(file) ==
  CASE file.t = "missing"   -> [raised |-> "FileNotFoundError", value |-> PyNone]
    [] file.t = "malformed" -> [raised |-> "JSONDecodeError", value |-> PyNone]
    [] file.t = "json"      -> [raised |-> "none", value |-> file.v]

\* main up to json.load's return (lines 489-501, 20-21)
ReadInput ==
  /\ pc = "idle"
  /\ input_file # PyNone
  /\ LET parsed == ParseInput(input_file)
     IN  IF parsed.raised = "none"
           THEN /\ doc' = parsed.value
                /\ pc' = "start"
                /\ UNCHANGED error
           ELSE /\ pc' = "raised"
                /\ error' = parsed.raised
                /\ UNCHANGED doc
  /\ UNCHANGED <<players, idx, dual_nationals, birth_years, departments,
                 diaspora_regions, diaspora_countries, nationalities_all,
                 enriched_players, results, now, analysis_date, resolver_vars,
                 classifier_vars, aux_vars>>

\* open(path, "w"), or the first bytes of to_csv, to_parquet, to_json: the
\* file exists under its final name, truncated
OpenOutput ==
  /\ pc \in {"returned", "saving"}
  /\ input_file # PyNone
  /\ out_k < Len(OutputNames)
  /\ files' = [files EXCEPT ![OutputNames[out_k + 1]] = [state |-> "partial"]]
  /\ pc' = "writing"
  /\ UNCHANGED <<doc, error, players, idx, dual_nationals, birth_years,
                 departments, diaspora_regions, diaspora_countries,
                 nationalities_all, enriched_players, results, now,
                 analysis_date, input_file, out_k, resolver_vars,
                 classifier_vars, rerun_vars, percent_vars, stats_vars,
                 dashboard_vars, collection_vars, parallel_vars, ratelimit_vars>>

\* the write completes and the file is closed
FinishOutput ==
  /\ pc = "writing"
  /\ files' = [files EXCEPT ![OutputNames[out_k + 1]] =
                 [state |-> "written", data |-> OutputContent(out_k + 1)]]
  /\ out_k' = out_k + 1
  /\ pc' = "saving"
  /\ UNCHANGED <<doc, error, players, idx, dual_nationals, birth_years,
                 departments, diaspora_regions, diaspora_countries,
                 nationalities_all, enriched_players, results, now,
                 analysis_date, input_file, resolver_vars, classifier_vars,
                 rerun_vars, percent_vars, stats_vars, dashboard_vars,
                 collection_vars, parallel_vars, ratelimit_vars>>

\* the process is stopped, or a write raises, once the outputs are under way
Interrupt ==
  /\ pc \in {"saving", "writing"}
  /\ pc' = "raised"
  /\ \E e \in {"KeyboardInterrupt", "OSError"} : error' = e
  /\ UNCHANGED <<doc, players, idx, dual_nationals, birth_years, departments,
                 diaspora_regions, diaspora_countries, nationalities_all,
                 enriched_players, results, now, analysis_date, resolver_vars,
                 classifier_vars, aux_vars>>

\* the input file is absent, is not JSON, or holds a document; the output
\* files are absent or left by an earlier run
InitMain ==
  /\ PipelineIdle
  /\ ResolverIdle
  /\ ClassifierIdle
  /\ RerunIdle /\ PercentIdle /\ StatsIdle /\ DashboardIdle /\ CollectionIdle
  /\ ParallelIdle
  /\ RateLimitIdle
  /\ input_file \in
       {[t |-> "missing"], [t |-> "malformed"]}
         \cup {[t |-> "json", v |-> d] :
                 d \in CoreDocuments \cup {Document(PlayerList(<<BareFields>>), FALSE)}}
  /\ \E before \in {"absent", "old"} :
       files = [name \in Range(OutputNames) |-> [state |-> before]]
  /\ out_k = 0

NextMain ==
  \/ ReadInput
  \/ Next
  \/ OpenOutput
  \/ FinishOutput
  \/ Interrupt

SpecMain == InitMain /\ [][NextMain]_vars

---------------------------------------------------------------------------
(* The summary's dicts in iteration order, and generate_article_stats.     *)
(* A dict is here the sequence of its <<key, value>> items.                *)

MaxRows == 3

MaxCount == 3

\* StableDesc putting the smallest count first
StableAsc(items) ==
  LET Rank(i) == 1 + Cardinality({j \in DOMAIN items :
                        \/ items[j][2] < items[i][2]
                        \/ items[j][2] = items[i][2] /\ j < i})
  IN  [k \in DOMAIN items |-> items[CHOOSE i \in DOMAIN items : Rank(i) = k]]

\* sorted(items, key=lambda x: -x[1]), and Counter.most_common: by descending
\* count, items of equal count in their original order
StableDesc(items) ==
  LET Rank(i) == 1 + Cardinality({j \in DOMAIN items :
                        \/ items[j][2] > items[i][2]
                        \/ items[j][2] = items[i][2] /\ j < i})
  IN  [k \in DOMAIN items |-> items[CHOOSE i \in DOMAIN items : Rank(i) = k]]

\* sorted(d.items()) of a dict with integer keys
SortedByKey(d) ==
  [k \in 1..Cardinality(DOMAIN d) |->
     LET key == CHOOSE x \in DOMAIN d : Cardinality({y \in DOMAIN d : y < x}) = k - 1
     IN  <<key, d[key]>>]

\* items[:n]
FirstItems(items, n) == SubSeq(items, 1, IF Len(items) < n THEN Len(items) ELSE n)

\* lines 349-388, on the counters of the loop
CompileStats ==
  /\ stats_pc = "start"
  /\ stats_results' =
       [total_players |-> stats_input.total,
        by_region     |-> stats_input.diaspora_regions,
        by_country    |-> FirstItems(StableDesc(stats_input.diaspora_countries), TopCount),
        by_5year      |-> SortedByKey(FiveYearCounts(stats_input.year_counts, <<>>)),
        by_department |->
          LET sorted == StableDesc(stats_input.departments)
          IN  [k \in DOMAIN sorted |->
                 <<sorted[k][1],
                   [count |-> sorted[k][2],
                    name  |-> Get(dept_names, sorted[k][1], sorted[k][1])]>>]]
  /\ stats_pc' = "compiled"
  /\ UNCHANGED <<stats_input, stats_rows, pipeline_vars, resolver_vars,
                 classifier_vars, rerun_vars, percent_vars, io_vars,
                 dashboard_vars, collection_vars, parallel_vars, ratelimit_vars>>

\* lines 405-431: the rows of the four tables, each a label, a count cell
\* and, for the regions, the percentage in tenths
\* (the warning sign of the two fixed rows is left out of their cell)
GenerateArticleStats ==
  /\ stats_pc = "compiled"
  /\ stats_rows' =
       [regions |->
          LET sorted == StableDesc(stats_results.by_region)
          IN  [k \in DOMAIN sorted |->
                 <<sorted[k][1], PyInt(sorted[k][2]),
                   RoundedPct(sorted[k][2], stats_results.total_players)>>],
        countries |->
          LET first == FirstItems(stats_results.by_country, 10)
          IN  [k \in DOMAIN first |-> <<first[k][1], PyInt(first[k][2])>>],
        departments |->
          [k \in DOMAIN stats_results.by_department |->
             LET item == stats_results.by_department[k]
             IN  <<item[2].name \o " (" \o item[1] \o ")", PyInt(item[2].count)>>]
            \o <<<<"Seine-Saint-Denis (93)", PyStr("Data missing")>>,
                 <<"Val-d'Oise (95)", PyStr("Data missing")>>>>,
        periods |->
          LET sorted == SortedByKey([k \in {stats_results.by_5year[i][1] :
                                              i \in DOMAIN stats_results.by_5year} |->
                                       (CHOOSE item \in Range(stats_results.by_5year) :
                                          item[1] = k)[2]])
          IN  [k \in DOMAIN sorted |->
                 <<ToString(sorted[k][1]) \o "-" \o ToString(sorted[k][1] + 4),
                   PyInt(sorted[k][2])>>]]
  /\ stats_pc' = "done"
  /\ UNCHANGED <<stats_input, stats_results, pipeline_vars, resolver_vars,
                 classifier_vars, rerun_vars, percent_vars, io_vars,
                 dashboard_vars, collection_vars, parallel_vars, ratelimit_vars>>

\* The counters as the loop of analyze_dataset leaves them: up to MaxRows
\* keys each, in the order of their first occurrence, with counts up to
\* MaxCount; the players are those counted and one more.
InitStats ==
  /\ PipelineIdle
  /\ ResolverIdle
  /\ ClassifierIdle
  /\ RerunIdle /\ PercentIdle /\ IoIdle /\ DashboardIdle /\ CollectionIdle
  /\ ParallelIdle
  /\ RateLimitIdle
  /\ \E n \in 0..MaxRows : \E counts \in [1..n -> 1..MaxCount] :
       \E order \in {f \in [1..n -> 1..n] : \A i, j \in 1..n : f[i] = f[j] => i = j} :
         LET region_keys  == <<"Sub-Saharan Africa", "Maghreb", "Portugal", "Comoros", "Asia">>
             country_keys == <<"Mali", "Algérie", "Portugal", "Comores", "Vietnam">>
             dept_keys    == <<"75", "92", "94", "77", "91">>
             year_keys    == <<1994, 1998, 2003, 1986, 1980>>
             Items(keys)  == [i \in 1..n |-> <<keys[order[i]], counts[i]>>]
         IN  stats_input =
               [total              |-> 1 + SumValues(counts),
                diaspora_regions   |-> Items(region_keys),
                diaspora_countries |-> Items(country_keys),
                departments        |-> Items(dept_keys),
                year_counts        |-> [y \in {year_keys[order[i]] : i \in 1..n} |->
                                          counts[CHOOSE i \in 1..n : year_keys[order[i]] = y]]]
  /\ stats_pc = "start"
  /\ stats_results = <<>>
  /\ stats_rows = <<>>

NextStats ==
  \/ CompileStats
  \/ GenerateArticleStats

SpecStats == InitStats /\ [][NextStats]_vars

---------------------------------------------------------------------------
(* The dashboards: src/app/app.py ("local", reads the CSV export) and      *)
(* src/huggingface-space/app.py ("space", loads the published dataset)     *)

MaxDashRows == 2

\* rows of the export: department code, region, birth year, dual flag
DashRowKinds ==
  {[birth_department |-> PyInt(93), diaspora_region |-> PyStr("Maghreb"),
    birth_year |-> PyInt(1994), is_dual_national |-> TRUE],
   [birth_department |-> PyInt(75), diaspora_region |-> PyNone,
    birth_year |-> PyInt(1998), is_dual_national |-> FALSE],
   [birth_department |-> PyInt(75), diaspora_region |-> PyStr("Maghreb"),
    birth_year |-> PyInt(1998), is_dual_national |-> TRUE],
   [birth_department |-> PyNone, diaspora_region |-> PyStr("Sub-Saharan Africa"),
    birth_year |-> PyInt(1994), is_dual_national |-> TRUE],
   [birth_department |-> PyInt(93), diaspora_region |-> PyNone,
    birth_year |-> PyNone, is_dual_national |-> FALSE]}

\* load_data of the app: the row numbers of df.  The space drops the rows
\* without a department (dropna); the local app keeps every row of the CSV.
LoadedRows(app, rows) ==
  IF app = "space"
    THEN {i \in DOMAIN rows : rows[i].birth_department # PyNone}
    ELSE DOMAIN rows

\* The values selected_dept can take.  local, lines 95-99: the text before
\* " - " of an option built from df['birth_department'].unique(); read_csv
\* makes the column float64 as soon as one cell is empty, and then 75 is
\* formatted "75.0" and the empty cell "nan".  space, lines 143-150: "All" or
\* the int before " - " of a key of DEPARTMENTS.
DeptChoices(app, rows, df) ==
  IF app = "space"
    THEN {PyStr("All")} \cup {PyInt(c) : c \in {75, 77, 78, 91, 92, 93, 94, 95}}
    ELSE LET is_float == \E i \in df : rows[i].birth_department = PyNone
             Text(d)  == IF d = PyNone THEN "nan"
                         ELSE IF is_float THEN ToString(d.v) \o ".0"
                         ELSE ToString(d.v)
         IN  {PyStr("All")} \cup {PyStr(Text(rows[i].birth_department)) : i \in df}

\* df['diaspora_region'].fillna('None')
RegionOrNone(row) ==
  IF row.diaspora_region = PyNone THEN "None" ELSE row.diaspora_region.v

\* one of the four filter statements (local lines 112-126, space 162-179),
\* applied to the row numbers kept so far; selection.department is "All" or
\* the int compared with the column
Filter(rows, kept, field, selection) ==
  CASE field = "department" ->
         IF selection.department = PyStr("All") THEN kept
         ELSE {i \in kept : rows[i].birth_department = selection.department}
    [] field = "region" ->
         IF selection.region = "All" THEN kept
         ELSE {i \in kept : RegionOrNone(rows[i]) = selection.region}
    [] field = "years" ->
         {i \in kept : /\ rows[i].birth_year # PyNone
                       /\ rows[i].birth_year.v >= selection.years[1]
                       /\ rows[i].birth_year.v <= selection.years[2]}
    [] field = "dual" ->
         CASE selection.dual = "All" -> kept
           [] selection.dual = "Dual nationals only" ->
                {i \in kept : rows[i].is_dual_national = TRUE}
           [] selection.dual = "Single nationality only" ->
                {i \in kept : rows[i].is_dual_national = FALSE}

\* df = load_data()
DashLoad ==
  /\ d_pc = "start"
  /\ d_filtered' = LoadedRows(d_app, d_rows)
  /\ d_pc' = "loaded"
  /\ UNCHANGED <<d_app, d_rows, d_selection, d_error, pipeline_vars,
                 resolver_vars, classifier_vars, rerun_vars, percent_vars,
                 io_vars, stats_vars, collection_vars, parallel_vars, ratelimit_vars>>

\* the user sets the four sidebar widgets; the slider runs between the
\* smallest and the largest birth year of df
DashSelect ==
  /\ d_pc = "loaded"
  /\ LET years   == {d_rows[i].birth_year.v :
                       i \in {j \in d_filtered : d_rows[j].birth_year # PyNone}}
         regions == {RegionOrNone(d_rows[i]) : i \in d_filtered} \ {"None"}
     IN  \E dept \in DeptChoices(d_app, d_rows, d_filtered) :
         \E region \in {"All"} \cup regions :
         \E lo \in years : \E hi \in {y \in years : y >= lo} :
         \E dual \in {"All", "Dual nationals only", "Single nationality only"} :
           d_selection' = [department |-> dept, region |-> region,
                           years |-> <<lo, hi>>, dual |-> dual]
  /\ d_pc' = "selected"
  /\ UNCHANGED <<d_app, d_rows, d_filtered, d_error, pipeline_vars,
                 resolver_vars, classifier_vars, rerun_vars, percent_vars,
                 io_vars, stats_vars, collection_vars, parallel_vars, ratelimit_vars>>

\* "Apply filters": local lines 110-126, space lines 160-179.  The local app
\* converts the selected text with int(), which raises ValueError on "75.0"
\* and on "nan".
ApplyFilters ==
  /\ d_pc = "selected"
  /\ LET dept == d_selection.department
         bad  == d_app = "local" /\ dept # PyStr("All") /\ ~IsIntLiteral(dept.v)
         sel  == IF d_app = "local" /\ dept # PyStr("All") /\ ~bad
                   THEN [d_selection EXCEPT !.department = PyInt(IntValue(dept.v))]
                   ELSE d_selection
     IN  IF bad
           THEN /\ d_pc' = "raised"
                /\ d_error' = "ValueError"
                /\ UNCHANGED d_filtered
           ELSE /\ d_filtered' =
                     Filter(d_rows,
                       Filter(d_rows,
                         Filter(d_rows,
                           Filter(d_rows, d_filtered, "department", sel),
                           "region", sel),
                         "years", sel),
                       "dual", sel)
                /\ d_pc' = "done"
                /\ UNCHANGED d_error
  /\ UNCHANGED <<d_app, d_rows, d_selection, pipeline_vars, resolver_vars,
                 classifier_vars, rerun_vars, percent_vars, io_vars, stats_vars,
                 collection_vars, parallel_vars, ratelimit_vars>>

\* a dataset of up to MaxDashRows rows, one of them at least with a birth
\* year and a department: both apps need them to draw their widgets
InitDashboard ==
  /\ PipelineIdle
  /\ ResolverIdle
  /\ ClassifierIdle
  /\ RerunIdle /\ PercentIdle /\ IoIdle /\ StatsIdle /\ CollectionIdle
  /\ ParallelIdle
  /\ RateLimitIdle
  /\ d_app \in {"local", "space"}
  /\ \E n \in 1..MaxDashRows : d_rows \in [1..n -> DashRowKinds]
  /\ \E i \in DOMAIN d_rows :
       d_rows[i].birth_year # PyNone /\ d_rows[i].birth_department # PyNone
  /\ d_pc = "start"
  /\ d_selection = <<>>
  /\ d_filtered = {}
  /\ d_error = "none"

NextDashboard ==
  \/ DashLoad
  \/ DashSelect
  \/ ApplyFilters

SpecDashboard == InitDashboard /\ [][NextDashboard]_vars

---------------------------------------------------------------------------
(* Collection: main of src/collectors/wikidata.py ("wikidata") and of      *)
(* scripts/retry_93_95.py ("retry")                                        *)

\* the departements in the order each script queries them
DeptOrder(script) ==
  IF script = "wikidata"
    THEN <<"75", "92", "93", "94", "95", "77", "78", "91">>
    ELSE <<"93", "95">>

\* what a query that succeeds may return: the entity id in the ?player of
\* each binding
QueryResponses == {<<>>, <<"Q1">>, <<"Q2", "Q1">>}

\* _parse_results / parse_results on those bindings.  _extract_qid gives
\* None for a value that is not an entity URI ("" here) and the last segment
\* of the URI otherwise; parse_results of the retry script always gives the
\* last segment, and its main then adds the code of the departement queried
\* to each player (lines 164-165)
ParsePlayers(script, code, response) ==
  [i \in DOMAIN response |->
     IF script = "retry"
       THEN [wikidata_id |-> PyStr(response[i]), department |-> code]
       ELSE [wikidata_id |-> IF response[i] = "" THEN PyNone ELSE PyStr(response[i])]]

\* Deduplicate keeping the last player of each wikidata_id
DeduplicateKeepLast(all_players) ==
  LET Kept(i) == /\ Truthy(all_players[i].wikidata_id)
                 /\ \A j \in (i + 1)..Len(all_players) :
                      all_players[j].wikidata_id # all_players[i].wikidata_id
      RECURSIVE From(_)
      From(i) == IF i > Len(all_players) THEN <<>>
                 ELSE IF Kept(i) THEN <<all_players[i]>> \o From(i + 1)
                 ELSE From(i + 1)
  IN  From(1)

\* wikidata.py lines 346-351: a player is kept if its wikidata_id is truthy
\* and was not seen before
Deduplicate(all_players) ==
  LET Kept(i) == /\ Truthy(all_players[i].wikidata_id)
                 /\ \A j \in 1..(i - 1) :
                      all_players[j].wikidata_id # all_players[i].wikidata_id
      RECURSIVE From(_)
      From(i) == IF i > Len(all_players) THEN <<>>
                 ELSE IF Kept(i) THEN <<all_players[i]>> \o From(i + 1)
                 ELSE From(i + 1)
  IN  From(1)

\* PositionAfterFailure giving the loop up at the first failure
PositionAfterFailureAbort(script, pos) == Len(DeptOrder(script))

\* the except clause is inside the loop body: the next departement follows
PositionAfterFailure(script, pos) == pos + 1

\* retry_93_95.py lines 136-141: main goes on only if the test query answers
CheckRateLimit ==
  /\ k_pc = "check"
  /\ \E cleared \in BOOLEAN : k_pc' = IF cleared THEN "collect" ELSE "stopped"
  /\ UNCHANGED <<k_script, k_pos, k_all, k_log, k_returned, k_saved,
                 k_main, k_merged,
                 pipeline_vars, resolver_vars, classifier_vars, rerun_vars,
                 percent_vars, io_vars, stats_vars, dashboard_vars,
                 parallel_vars, ratelimit_vars>>

\* one iteration of the loop whose query answers (wikidata.py lines 337-339,
\* retry_93_95.py lines 161-168)
QuerySucceeds ==
  /\ k_pc = "collect"
  /\ k_pos < Len(DeptOrder(k_script))
  /\ LET code == DeptOrder(k_script)[k_pos + 1]
     IN  \E response \in QueryResponses :
           /\ k_all' = k_all \o ParsePlayers(k_script, code, response)
           /\ k_returned' = Append(k_returned,
                                   [code |-> code, ok |-> TRUE, players |-> response])
  /\ k_pos' = k_pos + 1
  /\ UNCHANGED <<k_script, k_pc, k_log, k_saved, k_main, k_merged, pipeline_vars, resolver_vars,
                 classifier_vars, rerun_vars, percent_vars, io_vars, stats_vars,
                 dashboard_vars, parallel_vars, ratelimit_vars>>

\* one iteration whose query fails (timeout, connection error, HTTP error):
\* wikidata.py logs it in the except clause (lines 340-341); query_department
\* prints it and returns [] (lines 96-102)
QueryFails ==
  /\ k_pc = "collect"
  /\ k_pos < Len(DeptOrder(k_script))
  /\ LET code == DeptOrder(k_script)[k_pos + 1]
     IN  /\ k_log' = Append(k_log, code)
         /\ k_returned' = Append(k_returned,
                                 [code |-> code, ok |-> FALSE, players |-> <<>>])
  /\ k_pos' = PositionAfterFailure(k_script, k_pos)
  /\ UNCHANGED <<k_script, k_pc, k_all, k_saved, k_main, k_merged, pipeline_vars, resolver_vars,
                 classifier_vars, rerun_vars, percent_vars, io_vars, stats_vars,
                 dashboard_vars, parallel_vars, ratelimit_vars>>

\* after the loop: wikidata.py deduplicates and saves idf_footballers.json
\* (lines 346-354); the retry script saves idf_footballers_93_95.json as
\* collected (lines 174-185)
SaveDataset ==
  /\ k_pc = "collect"
  /\ k_pos = Len(DeptOrder(k_script))
  /\ k_saved' = PyList(IF k_script = "wikidata" THEN Deduplicate(k_all) ELSE k_all)
  /\ k_pc' = "saved"
  /\ UNCHANGED <<k_script, k_pos, k_all, k_log, k_returned, k_main, k_merged, pipeline_vars,
                 resolver_vars, classifier_vars, rerun_vars, percent_vars,
                 io_vars, stats_vars, dashboard_vars, parallel_vars, ratelimit_vars>>

\* MergeInto that never adds an appended id to existing_ids
MergeIntoWithoutSeen(main_data, all_players) ==
  LET existing_ids == {main_data.players[i].wikidata_id : i \in DOMAIN main_data.players}
      added == SelectSeq(all_players, LAMBDA p : p.wikidata_id \notin existing_ids)
      merged == main_data.players \o added
  IN  [metadata |-> [count |-> Len(merged), includes_93_95 |-> TRUE,
                     last_updated |-> "now"] @@ main_data.metadata,
       players  |-> merged]

\* retry_93_95.py lines 196-210: a player whose id is not among existing_ids
\* is appended and its id added to them; then the metadata are updated
\* (last_updated: the time of the merge, whatever it is)
MergeInto(main_data, all_players) ==
  LET RECURSIVE AppendNew(_, _)
      AppendNew(list, k) ==
        IF k > Len(all_players) THEN list
        ELSE IF \E i \in DOMAIN list :
                  list[i].wikidata_id = all_players[k].wikidata_id
               THEN AppendNew(list, k + 1)
               ELSE AppendNew(Append(list, all_players[k]), k + 1)
      merged == AppendNew(main_data.players, 1)
  IN  [metadata |-> [count |-> Len(merged), includes_93_95 |-> TRUE,
                     last_updated |-> "now"] @@ main_data.metadata,
       players  |-> merged]

\* retry_93_95.py lines 189-214: the main dataset is read, merged and
\* written back; open() raises FileNotFoundError when it is not there
MergeIntoMain ==
  /\ k_script = "retry"
  /\ k_pc = "saved"
  /\ IF k_main = PyNone
       THEN /\ k_pc' = "raised"
            /\ UNCHANGED k_merged
       ELSE /\ k_pc' = "merged"
            /\ k_merged' = MergeInto(k_main, k_all)
  /\ UNCHANGED <<k_script, k_pos, k_all, k_log, k_returned, k_saved, k_main,
                 pipeline_vars, resolver_vars, classifier_vars, rerun_vars,
                 percent_vars, io_vars, stats_vars, dashboard_vars,
                 parallel_vars, ratelimit_vars>>

\* the retry script finds idf_footballers.json as wikidata.py or an earlier
\* merge left it, or not at all
InitCollection ==
  /\ PipelineIdle
  /\ ResolverIdle
  /\ ClassifierIdle
  /\ RerunIdle /\ PercentIdle /\ IoIdle /\ StatsIdle /\ DashboardIdle
  /\ ParallelIdle
  /\ RateLimitIdle
  /\ k_script \in {"wikidata", "retry"}
  /\ k_pc = IF k_script = "retry" THEN "check" ELSE "collect"
  /\ k_pos = 0
  /\ k_all = <<>>
  /\ k_log = <<>>
  /\ k_returned = <<>>
  /\ k_saved = PyNone
  /\ LET MainFile(ids) ==
           [metadata |-> [source |-> "Wikidata SPARQL", count |-> Len(ids)],
            players  |-> [i \in DOMAIN ids |-> [wikidata_id |-> PyStr(ids[i])]]]
     IN  IF k_script = "retry"
           THEN k_main \in {PyNone, MainFile(<<>>), MainFile(<<"Q1">>),
                            MainFile(<<"Q3", "Q2">>)}
           ELSE k_main = PyNone
  /\ k_merged = <<>>

NextCollection ==
  \/ CheckRateLimit
  \/ QuerySucceeds
  \/ QueryFails
  \/ SaveDataset
  \/ MergeIntoMain

SpecCollection == InitCollection /\ [][NextCollection]_vars

---------------------------------------------------------------------------
(* The loop of analyze_dataset as a map over the records followed by a     *)
(* fold in input order                                                     *)

\* the body of the loop (lines 299-336) on one record, every accumulator
\* empty: what the record adds to each of them
EnrichRecord(player) ==
  LET nats     == Get(player, "nationalities", <<>>)
      dob      == Get(player, "date_of_birth", PyStr(""))
      dept     == ResolveDepartment(BirthplaceName(player))
      diaspora == categorize_diaspora(nats)
      year     == EnrichedBirthYear(dob)
  IN  [raised             |-> year.raised,
       nationalities_all  |-> nats,
       dual_nationals     |-> IF Len(nats) > 1 THEN 1 ELSE 0,
       birth_years        |-> BirthYearsAfter(<<>>, dob),
       departments        |-> DepartmentsAfter(EmptyDict, dept),
       diaspora_regions   |-> RegionsAfter(EmptyDict, diaspora),
       diaspora_countries |-> CountriesAfter(EmptyDict, diaspora),
       enriched_players   |->
         IF year.raised = "none"
           THEN AppendEnriched(<<>>, Enriched(player, dept, year.value, diaspora))
           ELSE <<>>]

\* any record not yet processed is processed, whatever the others are
EnrichOne ==
  /\ pc # "start"
  /\ par_pc = "idle"
  /\ \E i \in DOMAIN players :
       /\ \A d \in par_done : d.i # i
       /\ par_done' = par_done \cup {[i |-> i, rec |-> EnrichRecord(players[i])]}
  /\ UNCHANGED <<par_pc, par_result, pipeline_vars, resolver_vars,
                 classifier_vars, rerun_vars, percent_vars, io_vars, stats_vars,
                 dashboard_vars, collection_vars, ratelimit_vars>>

\* the contributions are put together in the order of the input; an
\* exception of any record is the exception of the whole
FoldInOrder ==
  /\ par_pc = "idle"
  /\ Len(players) > 0
  /\ {d.i : d \in par_done} = DOMAIN players
  /\ LET Rec(i) == (CHOOSE d \in par_done : d.i = i).rec
         Sum(a, b) == [k \in DOMAIN a \cup DOMAIN b |-> Get(a, k, 0) + Get(b, k, 0)]
         RECURSIVE Fold(_, _)
         Fold(acc, i) ==
           IF i > Len(players) THEN acc
           ELSE Fold([nationalities_all  |-> acc.nationalities_all \o Rec(i).nationalities_all,
                      dual_nationals     |-> acc.dual_nationals + Rec(i).dual_nationals,
                      birth_years        |-> acc.birth_years \o Rec(i).birth_years,
                      departments        |-> Sum(acc.departments, Rec(i).departments),
                      diaspora_regions   |-> Sum(acc.diaspora_regions, Rec(i).diaspora_regions),
                      diaspora_countries |-> Sum(acc.diaspora_countries, Rec(i).diaspora_countries),
                      enriched_players   |-> acc.enriched_players \o Rec(i).enriched_players],
                     i + 1)
         Empty == [nationalities_all |-> <<>>, dual_nationals |-> 0,
                   birth_years |-> <<>>, departments |-> EmptyDict,
                   diaspora_regions |-> EmptyDict, diaspora_countries |-> EmptyDict,
                   enriched_players |-> <<>>]
     IN  IF \E d \in par_done : d.rec.raised # "none"
           THEN /\ par_pc' = "raised"
                /\ UNCHANGED par_result
           ELSE /\ par_pc' = "folded"
                /\ par_result' = Fold(Empty, 1)
  /\ UNCHANGED <<par_done, pipeline_vars, resolver_vars, classifier_vars,
                 rerun_vars, percent_vars, io_vars, stats_vars, dashboard_vars,
                 collection_vars, ratelimit_vars>>

InitParallel ==
  /\ doc \in CoreDocuments
  /\ PipelineAtStart
  /\ ResolverIdle
  /\ ClassifierIdle
  /\ AuxIdle

NextParallel ==
  \/ Next
  \/ EnrichOne
  \/ FoldInOrder

SpecParallel == InitParallel /\ [][NextParallel]_vars

---------------------------------------------------------------------------
(* BaseCollector.get (src/collectors/base.py) *)

rate_limit == 2

MaxTime == 8

\* get up to the request leaving: the call is made at some time `called`,
\* _wait_for_rate_limit sleeps for what is missing of rate_limit since
\* _last_request_time (time.sleep may return late), then _client.get sends
GetSend ==
  /\ g_pc = "idle"
  /\ \E called \in g_clock..MaxTime :
       LET elapsed == called - g_last
           woken   == IF elapsed < rate_limit
                        THEN called + (rate_limit - elapsed)
                        ELSE called
       IN  \E sent \in woken..MaxTime :
             /\ g_clock' = sent
             /\ g_sent' = sent
  /\ g_pc' = "in flight"
  /\ UNCHANGED <<g_last, g_done, g_outcome, pipeline_vars, resolver_vars,
                 classifier_vars, rerun_vars, percent_vars, io_vars, stats_vars,
                 dashboard_vars, collection_vars, parallel_vars>>

\* the rest of get: _client.get returns a response or raises a transport
\* error (timeout, connection error); _last_request_time is assigned only
\* after it returned (line 52); raise_for_status comes after that
GetComplete ==
  /\ g_pc = "in flight"
  /\ \E finished \in g_clock..MaxTime,
        outcome \in {"response", "http error", "transport error"} :
       /\ g_clock' = finished
       /\ g_done' = finished
       /\ g_outcome' = outcome
       /\ g_last' = IF outcome = "transport error" THEN g_last ELSE finished
  /\ g_pc' = "idle"
  /\ UNCHANGED <<g_sent, pipeline_vars, resolver_vars, classifier_vars,
                 rerun_vars, percent_vars, io_vars, stats_vars, dashboard_vars,
                 collection_vars, parallel_vars>>

\* a collector just constructed: _last_request_time = 0.0 (line 28), and the
\* clock reads more than rate_limit seconds after the epoch
InitRateLimit ==
  /\ PipelineIdle
  /\ ResolverIdle
  /\ ClassifierIdle
  /\ RerunIdle /\ PercentIdle /\ IoIdle /\ StatsIdle /\ DashboardIdle
  /\ CollectionIdle
  /\ ParallelIdle
  /\ g_pc = "idle"
  /\ g_last = 0
  /\ g_clock = rate_limit
  /\ g_sent = 0
  /\ g_done = 0
  /\ g_outcome = "none"

NextRateLimit ==
  \/ GetSend
  \/ GetComplete

SpecRateLimit == InitRateLimit /\ [][NextRateLimit]_vars

---------------------------------------------------------------------------
(* The deduplication of wikidata.py on any collected list *)

MaxCollected == 3

\* the loop over the departements is over (line 346) with any list
\* collected, of players as _parse_results builds them: the id is null or a
\* QID, and two rows of one player differ in the birthplace
InitDedup ==
  /\ PipelineIdle
  /\ ResolverIdle
  /\ ClassifierIdle
  /\ RerunIdle /\ PercentIdle /\ IoIdle /\ StatsIdle /\ DashboardIdle
  /\ ParallelIdle
  /\ RateLimitIdle
  /\ k_script = "wikidata"
  /\ k_pc = "collect"
  /\ k_pos = Len(DeptOrder(k_script))
  /\ LET CollectedPlayers ==
           {[wikidata_id |-> id, birthplace |-> PyDict([name |-> place])] :
              id \in {PyNone, PyStr("Q1"), PyStr("Q2")}, place \in {"Paris", "Bondy"}}
     IN  \E n \in 0..MaxCollected : k_all \in [1..n -> CollectedPlayers]
  /\ k_log = <<>>
  /\ k_returned = <<>>
  /\ k_saved = PyNone
  /\ k_main = PyNone
  /\ k_merged = <<>>

SpecDedup == InitDedup /\ [][SaveDataset]_vars

---------------------------------------------------------------------------
(* Vocabulary of the properties *)

\* the region tables with the label the classifier assigns for each
RegionTables ==
  {<<"Sub-Saharan Africa", sub_saharan>>, <<"Maghreb", maghreb>>,
   <<"Caribbean/Overseas", overseas>>, <<"Comoros", comoros>>,
   <<"Portugal", portugal>>, <<"Other Europe", other_europe>>, <<"Asia", asia>>}

InSomeTable(nat) == \E t \in RegionTables : nat \in t[2]

TableLabel(nat) == (CHOOSE t \in RegionTables : nat \in t[2])[1]

\* a nationality that is not France and belongs to some region table
IsDiasporaCountry(nat) == nat # "France" /\ InSomeTable(nat)

\* the positions of such nationalities in a list
Matching(nats) == {i \in DOMAIN nats : IsDiasporaCountry(nats[i])}

Largest(S) == CHOOSE x \in S : \A y \in S : y <= x

Smallest(S) == CHOOSE x \in S : \A y \in S : x <= y

EightCodes == {"75", "77", "78", "91", "92", "93", "94", "95"}

NationalitiesOf(player) == Get(player, "nationalities", <<>>)

\* date_of_birth is a non-empty string whose first four characters int() rejects
UnparsableDate(player) ==
  /\ "date_of_birth" \in DOMAIN player
  /\ player.date_of_birth.t = "str"
  /\ Len(player.date_of_birth.v) > 0
  /\ ~IsIntLiteral(Prefix4(player.date_of_birth.v))

NoBirthplaceObject(player) ==
  "birthplace" \notin DOMAIN player \/ player.birthplace.t # "dict"

NoBirthDate(player) ==
  "date_of_birth" \notin DOMAIN player \/ player.date_of_birth = PyNone

\* region is null iff nothing matched; countries is empty iff region is null
RegionConsistent(nats, region, countries) ==
  /\ region = PyNone <=> Matching(nats) = {}
  /\ countries = <<>> <=> region = PyNone

\* the raw record list of a document of either shape
RecordsOf(d) == IF d.t = "dict" THEN d.v.players ELSE d.v

\* the sum of the per-department counts of the summary
DepartmentCountSum ==
  SumValues([d \in DOMAIN results.geographic.by_department |->
               results.geographic.by_department[d].count])

---------------------------------------------------------------------------
(* Properties *)

\* C1: whenever analyze_dataset returns, the enriched list is as long as the
\* raw list and its i-th element carries the wikidata_id of the i-th raw
\* record: nothing dropped, nothing duplicated, input order kept.
C1_EnrichedFollowsInput ==
  pc = "returned" =>
    /\ Len(enriched_players) = Len(players)
    /\ \A i \in DOMAIN players :
         enriched_players[i].wikidata_id = players[i].wikidata_id

C1_Witness ==
  /\ pc = "returned"
  /\ Len(players) = 2
  /\ enriched_players[1].wikidata_id = "Q1"
  /\ enriched_players[2].wikidata_id = "Q2"

\* C2: a record whose date_of_birth is present but unparsable does not stop
\* analyze_dataset; it appears in the enriched list with birth_year null and
\* adds nothing to the per-year counters.
C2_UnparsableDateTolerated ==
  /\ pc = "raised" => error # "ValueError"
  /\ \A i \in DOMAIN enriched_players :
       UnparsableDate(players[i]) => enriched_players[i].birth_year = PyNone
  /\ pc = "returned" =>
       /\ Len(enriched_players) = Len(players)
       /\ SumValues(results.temporal.by_year) =
            Cardinality({i \in DOMAIN players :
                           enriched_players[i].birth_year # PyNone})

C4_BothShapesLoad ==
  pc # "start" => error # "AttributeError" /\ players = RecordsOf(doc)

\* C5: categorize_diaspora returns as diaspora_region the label of the table
\* containing the last element of the list that is not France and belongs to
\* a table; one label is retained even when the matches span several regions.
C5_LastMatchWins ==
  c_pc = "done" =>
    /\ c_result.diaspora_region \in
         {PyNone} \cup {PyStr(t[1]) : t \in RegionTables}
    /\ Matching(c_input) # {} =>
         c_result.diaspora_region =
           PyStr(TableLabel(c_input[Largest(Matching(c_input))]))

C5_Witness ==
  /\ c_pc = "done"
  /\ c_input = <<"Cameroun", "Algérie", "France">>
  /\ c_result.diaspora_region = PyStr("Maghreb")

\* C6: diaspora_region is null iff no element other than France belongs to a
\* region table, and diaspora_countries is empty iff diaspora_region is null,
\* for the dict categorize_diaspora returns and for every enriched record.
C6_RegionNullIffNoMatch ==
  /\ c_pc = "done" =>
       RegionConsistent(c_input, c_result.diaspora_region,
                        c_result.diaspora_countries)
  /\ \A i \in DOMAIN enriched_players :
       RegionConsistent(NationalitiesOf(players[i]),
                        enriched_players[i].diaspora_region,
                        enriched_players[i].diaspora_countries)

C6_Witness ==
  /\ pc = "returned"
  /\ Len(enriched_players) = 2
  /\ NationalitiesOf(players[1]) = <<"France">>
  /\ enriched_players[1].diaspora_region = PyNone
  /\ enriched_players[1].diaspora_countries = <<>>
  /\ enriched_players[2].diaspora_region = PyStr("Sub-Saharan Africa")
  /\ enriched_players[2].diaspora_countries = <<"Algérie", "Mali">>

\* C7: diaspora_countries is exactly the sub-sequence, in list order, of the
\* elements that are not France and belong to some region table;
\* ["France", "Cameroun"] gives Sub-Saharan Africa and ["Cameroun"].
C7_CountriesAreTheMatches ==
  c_pc = "done" =>
    /\ c_result.diaspora_countries = SelectSeq(c_input, IsDiasporaCountry)
    /\ c_input = <<"France", "Cameroun">> =>
         /\ c_result.diaspora_region = PyStr("Sub-Saharan Africa")
         /\ c_result.diaspora_countries = <<"Cameroun">>

C7_Witness ==
  /\ c_pc = "done"
  /\ c_input = <<"Mali", "France", "Algérie">>
  /\ c_result.diaspora_countries = <<"Mali", "Algérie">>

\* C8: is_dual_national of an enriched record is true exactly when its
\* nationality list has more than one element, and the summary's
\* dual_nationals is the number of enriched records flagged true.
C8_DualNationalFlag ==
  /\ \A i \in DOMAIN enriched_players :
       enriched_players[i].is_dual_national
         = (Len(NationalitiesOf(enriched_players[i])) > 1)
  /\ pc = "returned" =>
       results.demographics.dual_nationals =
         Cardinality({i \in DOMAIN enriched_players :
                        enriched_players[i].is_dual_national})

C8_Witness ==
  /\ pc = "returned"
  /\ Len(enriched_players) = 2
  /\ Len(NationalitiesOf(enriched_players[1])) = 1
  /\ ~enriched_players[1].is_dual_national
  /\ enriched_players[2].is_dual_national
  /\ results.demographics.dual_nationals = 1

\* C9: the resolver returns "75" if the lower-cased input contains "paris",
\* otherwise the code of the first table entry, in definition order, whose
\* city is a substring of it, otherwise null; the result is one of the eight
\* codes or null; "75003 Paris" gives 75, "Bondy" 93, "Unknown City, Mars" null.
C9_ResolverResult ==
  r_pc = "done" =>
    LET name    == lower(r_input)
        matches == {k \in DOMAIN city_to_dept : Contains(name, city_to_dept[k][1])}
    IN  /\ r_result \in {PyNone} \cup {PyStr(c) : c \in EightCodes}
        /\ Contains(name, "paris") => r_result = PyStr("75")
        /\ ~Contains(name, "paris") /\ matches # {} =>
             r_result = PyStr(city_to_dept[Smallest(matches)][2])
        /\ ~Contains(name, "paris") /\ matches = {} => r_result = PyNone
        /\ r_input = "75003 Paris" => r_result = PyStr("75")
        /\ r_input = "Bondy" => r_result = PyStr("93")
        /\ r_input = "Unknown City, Mars" => r_result = PyNone

C9_Witness ==
  /\ r_pc = "done"
  /\ r_input = "Clichy-sous-Bois"
  /\ r_k = 11
  /\ r_result = PyStr("92")

\* C10: a raw record with zero nationalities, without a birthplace object or
\* without a birth date is never discarded: analyze_dataset completes and
\* the record is in the enriched list with is_dual_national false,
\* diaspora_region null, department null, birth_year null respectively.
C10_MissingFieldsKept ==
  /\ (\E i \in DOMAIN players :
        \/ Len(NationalitiesOf(players[i])) = 0
        \/ NoBirthplaceObject(players[i])
        \/ NoBirthDate(players[i]))
       => pc # "raised"
  /\ pc = "returned" =>
       \A i \in DOMAIN players :
         /\ i \in DOMAIN enriched_players
         /\ Len(NationalitiesOf(players[i])) = 0 =>
              /\ ~enriched_players[i].is_dual_national
              /\ enriched_players[i].diaspora_region = PyNone
         /\ NoBirthplaceObject(players[i]) =>
              enriched_players[i].department = PyNone
         /\ NoBirthDate(players[i]) =>
              enriched_players[i].birth_year = PyNone

\* C11: a second call of analyze_dataset on the same raw list returns the
\* same enriched list and the same demographics, diaspora, temporal and
\* geographic sections as the first; of the metadata only analysis_date may
\* differ.
C11_RerunIdentical ==
  (run = 2 /\ pc = "returned") =>
    /\ enriched_players = first_enriched
    /\ \A section \in {"demographics", "diaspora", "temporal", "geographic"} :
         results[section] = first_results[section]
    /\ \A key \in DOMAIN results.metadata \ {"analysis_date"} :
         results.metadata[key] = first_results.metadata[key]
    /\ DOMAIN results.metadata = DOMAIN first_results.metadata

C11_Witness ==
  /\ run = 2
  /\ pc = "returned"
  /\ Len(enriched_players) = 2
  /\ enriched_players[2].diaspora_region # PyNone
  /\ results.metadata.analysis_date # first_results.metadata.analysis_date

\* C12: each percentage is 100 * count / total rounded to one decimal place:
\* it is a whole number of tenths at most half a tenth away from the exact
\* quotient; 250 dual nationals among 1000 players give 25.0.
C12_PercentRounded ==
  p_pc \in PctSites =>
    /\ 2000 * p_count - 2 * p_pct * p_total <= p_total
    /\ 2 * p_pct * p_total - 2000 * p_count <= p_total
    /\ (p_count = 250 /\ p_total = 1000) => p_pct = 250

C12_Witness ==
  /\ p_pc = "dual_national_pct"
  /\ p_count = 250
  /\ p_total = 1000
  /\ p_pct = 250

\* C13: every enriched record holds every field of its raw record with the
\* raw value unchanged, together with all five derived fields; none is
\* emitted with only part of them.
C13_EnrichedComplete ==
  \A i \in DOMAIN enriched_players :
    /\ {"department", "birth_year", "is_dual_national", "diaspora_region",
        "diaspora_countries"} \subseteq DOMAIN enriched_players[i]
    /\ DOMAIN players[i] \subseteq DOMAIN enriched_players[i]
    /\ \A key \in DOMAIN players[i] : enriched_players[i][key] = players[i][key]

\* C14: when the input file is missing or is not a JSON document, main stops
\* in load_data and no output file has been written or modified: each is as
\* it was before the run.
C14_AbortBeforeOutputs ==
  (input_file # PyNone /\ input_file.t \in {"missing", "malformed"}) =>
    /\ pc \in {"idle", "raised"}
    /\ pc = "raised" => error \in {"FileNotFoundError", "JSONDecodeError"}
    /\ out_k = 0
    /\ \A name \in DOMAIN files : files[name].state \in {"absent", "old"}

C14_Witness ==
  /\ pc = "raised"
  /\ error = "JSONDecodeError"
  /\ input_file.t = "malformed"
  /\ \A name \in DOMAIN files : files[name].state = "old"

\* C15: no export file is ever on disk partially written, whether the run
\* completes, fails or is interrupted during or between the three writes.
C15_ExportsAtomic ==
  \A k \in 3..5 :
    OutputNames[k] \in DOMAIN files => files[OutputNames[k]].state # "partial"

\* C16 as stated: once the three exports are written each has exactly the ten
\* columns wikidata_id, name, birth_date, birth_year, birth_department,
\* nationalities, is_dual_national, diaspora_region, diaspora_countries,
\* birth_city, and one row per enriched record, in the order of the list.
C16_TenColumnsEveryFormat ==
  out_k = 5 =>
    LET csv     == files["idf_footballers.csv"].data
        parquet == files["idf_footballers.parquet"].data
        jsonl   == files["idf_footballers.jsonl"].data
        ten     == <<"wikidata_id", "name", "birth_date", "birth_year",
                     "birth_department", "nationalities", "is_dual_national",
                     "diaspora_region", "diaspora_countries", "birth_city">>
        ids     == [i \in DOMAIN enriched_players |-> enriched_players[i].wikidata_id]
    IN  /\ csv.header = ten
        /\ parquet.schema = ten
        /\ \A i \in DOMAIN jsonl : [j \in DOMAIN jsonl[i] |-> jsonl[i][j][1]] = ten
        /\ [i \in DOMAIN csv.lines |-> csv.lines[i][1]] = ids
        /\ [i \in DOMAIN parquet.rows |-> parquet.rows[i].wikidata_id] = ids
        /\ [i \in DOMAIN jsonl |-> jsonl[i][1][2]] = ids

\* C16 as amended: the three exports have the same columns under the same
\* names in the same order, namely those of the ten whose source key some
\* enriched record carries (birth_date and nationalities are absent when no
\* raw record has date_of_birth or nationalities), and one row per enriched
\* record in the order of the list.
C16_SameColumnsEveryFormat ==
  out_k = 5 =>
    LET csv     == files["idf_footballers.csv"].data
        parquet == files["idf_footballers.parquet"].data
        jsonl   == files["idf_footballers.jsonl"].data
        carried == UNION {DOMAIN enriched_players[i] : i \in DOMAIN enriched_players}
        columns == SelectSeq(<<"wikidata_id", "name", "birth_date", "birth_year",
                               "birth_department", "nationalities",
                               "is_dual_national", "diaspora_region",
                               "diaspora_countries", "birth_city">>,
                             LAMBDA c : /\ c = "birth_date" => "date_of_birth" \in carried
                                        /\ c = "nationalities" => "nationalities" \in carried)
        ids     == [i \in DOMAIN enriched_players |-> enriched_players[i].wikidata_id]
    IN  /\ csv.header = columns
        /\ parquet.schema = columns
        /\ \A i \in DOMAIN jsonl : [j \in DOMAIN jsonl[i] |-> jsonl[i][j][1]] = columns
        /\ [i \in DOMAIN csv.lines |-> csv.lines[i][1]] = ids
        /\ [i \in DOMAIN parquet.rows |-> parquet.rows[i].wikidata_id] = ids
        /\ [i \in DOMAIN jsonl |-> jsonl[i][1][2]] = ids

C16_Witness ==
  /\ out_k = 5
  /\ Len(enriched_players) = 2
  /\ Len(files["idf_footballers.csv"].data.header) = 10
  /\ Len(files["idf_footballers.jsonl"].data) = 2
  /\ files["idf_footballers.parquet"].data.rows[2].wikidata_id = "Q2"
  /\ "nationalities" \notin DOMAIN players[1]

\* C17 as stated: in every table of the report (regions, countries,
\* departements, birth-year periods) the rows that have a count are in
\* descending order of count.
C17_EveryTableByCount ==
  stats_pc = "done" =>
    \A table \in {"regions", "countries", "departments", "periods"} :
      \A i, j \in DOMAIN stats_rows[table] :
        (i < j /\ stats_rows[table][i][2].t = "int" /\ stats_rows[table][j][2].t = "int")
          => stats_rows[table][i][2].v >= stats_rows[table][j][2].v

\* C17 as amended: the region, country and departement tables are in
\* descending order of count, the departement table ending with the two
\* fixed rows for 93 and 95 that have no count; the birth-year table is in
\* ascending order of period, whatever the counts.
C17_TablesOrdered ==
  stats_pc = "done" =>
    /\ \A table \in {"regions", "countries", "departments"} :
         \A i, j \in DOMAIN stats_rows[table] :
           (i < j /\ stats_rows[table][i][2].t = "int" /\ stats_rows[table][j][2].t = "int")
             => stats_rows[table][i][2].v >= stats_rows[table][j][2].v
    /\ LET rows == stats_rows.departments
       IN  /\ Len(rows) = Len(stats_input.departments) + 2
           /\ rows[Len(rows) - 1] = <<"Seine-Saint-Denis (93)", PyStr("Data missing")>>
           /\ rows[Len(rows)] = <<"Val-d'Oise (95)", PyStr("Data missing")>>
           /\ \A k \in 1..Len(rows) - 2 : rows[k][2].t = "int"
    /\ LET by_5year == FiveYearCounts(stats_input.year_counts, <<>>)
           Before(p) == Cardinality({q \in DOMAIN by_5year : q < p})
       IN  /\ Len(stats_rows.periods) = Cardinality(DOMAIN by_5year)
           /\ \A p \in DOMAIN by_5year :
                stats_rows.periods[Before(p) + 1] =
                  <<ToString(p) \o "-" \o ToString(p + 4), PyInt(by_5year[p])>>

C17_Witness ==
  /\ stats_pc = "done"
  /\ Len(stats_input.diaspora_regions) = 3
  /\ stats_input.diaspora_regions[1][2] < stats_input.diaspora_regions[2][2]
  /\ stats_rows.regions[1][2].v > stats_rows.regions[3][2].v
  /\ stats_rows.departments[1][2].v > stats_rows.departments[3][2].v
  /\ Len(stats_rows.periods) = 3
  /\ stats_rows.periods[1] = <<"1990-1994", PyInt(1)>>
  /\ stats_rows.periods[3][2].v > 1

\* C18: the dashboard always arrives at a filtered set, and that set is
\* exactly the rows of the loaded dataset satisfying the conjunction of the
\* four checks, a widget left at "All" imposing none; applying the four
\* filters in any other order gives the same set.
C18_FilterIsConjunction ==
  /\ d_pc # "raised"
  /\ d_pc = "done" =>
       LET df     == LoadedRows(d_app, d_rows)
           sel    == d_selection
           code   == IF sel.department.t = "str" /\ sel.department # PyStr("All")
                       THEN PyInt(IntValue(sel.department.v))
                       ELSE sel.department
           Passes(row) ==
             /\ sel.department = PyStr("All") \/ row.birth_department = code
             /\ sel.region = "All" \/ RegionOrNone(row) = sel.region
             /\ row.birth_year # PyNone
             /\ row.birth_year.v >= sel.years[1]
             /\ row.birth_year.v <= sel.years[2]
             /\ sel.dual = "Dual nationals only" => row.is_dual_national
             /\ sel.dual = "Single nationality only" => ~row.is_dual_national
           fields == {"department", "region", "years", "dual"}
           parsed == [sel EXCEPT !.department = code]
       IN  /\ d_filtered = {i \in df : Passes(d_rows[i])}
           /\ \A order \in {o \in [1..4 -> fields] :
                              \A a, b \in 1..4 : o[a] = o[b] => a = b} :
                Filter(d_rows,
                  Filter(d_rows,
                    Filter(d_rows,
                      Filter(d_rows, df, order[1], parsed),
                      order[2], parsed),
                    order[3], parsed),
                  order[4], parsed) = d_filtered

\* C19: the departements are attempted in the fixed order whatever fails; a
\* failed query is logged and adds no player; once the dataset is saved
\* every departement has been attempted, the log names exactly the failed
\* ones, and the saved players are exactly those the successful queries
\* returned.
C19_FailuresSkipped ==
  LET order     == DeptOrder(k_script)
      attempted == [i \in DOMAIN k_returned |-> k_returned[i].code]
      failed    == SelectSeq(k_returned, LAMBDA q : ~q.ok)
      found     == UNION {Range(k_returned[i].players) : i \in DOMAIN k_returned}
  IN  k_script # "none" =>
        /\ Len(attempted) <= Len(order)
        /\ attempted = SubSeq(order, 1, Len(attempted))
        /\ k_log = [i \in DOMAIN failed |-> failed[i].code]
        /\ {k_all[i].wikidata_id.v : i \in DOMAIN k_all} = found
        /\ k_pc = "saved" =>
             /\ attempted = order
             /\ {k_saved.v[i].wikidata_id.v : i \in DOMAIN k_saved.v} = found

C19_Witness ==
  /\ k_script = "wikidata"
  /\ k_pc = "saved"
  /\ k_log = <<"92", "95">>
  /\ k_returned[1].players = <<"Q1">>
  /\ k_returned[8].players = <<"Q2", "Q1">>
  /\ Len(k_saved.v) = 2

\* C20: processing the records one by one in any order, each from its raw
\* record alone, and putting the outcomes together in input order gives the
\* enriched list and the count mappings of the sequential pass, and fails
\* exactly when the sequential pass fails on a record.
C20_RecordsIndependent ==
  /\ (par_pc = "folded" /\ pc = "returned") =>
       /\ par_result.enriched_players = enriched_players
       /\ par_result.departments = departments
       /\ par_result.diaspora_regions = diaspora_regions
       /\ par_result.diaspora_countries = diaspora_countries
       /\ par_result.birth_years = birth_years
       /\ par_result.nationalities_all = nationalities_all
       /\ par_result.dual_nationals = dual_nationals
  /\ (par_pc = "folded" /\ pc = "raised") => error # "ValueError"
  /\ par_pc = "raised" => pc # "returned"

C20_Witness ==
  /\ par_pc = "folded"
  /\ pc = "returned"
  /\ Len(enriched_players) = 2
  /\ \E key \in DOMAIN departments : departments[key] = 2
  /\ DOMAIN diaspora_countries # {}

\* C21: analyze_dataset leaves its input as it was loaded: at every point
\* of the call and after it returns, the raw list is the list read from the
\* document, record for record, nationalities and birthplace included.
C21_InputUnchanged ==
  (pc \in {"analyze", "returned"} \/ (pc = "raised" /\ error # "AttributeError")) =>
    players = load_data(doc).value

C21_Witness ==
  /\ pc = "returned"
  /\ Len(players) = 2
  /\ players = load_data(doc).value
  /\ Len(Get(players[1], "nationalities", <<>>)) > 1
  /\ "birthplace" \in DOMAIN players[1]
  /\ "department" \notin DOMAIN players[1]
  /\ enriched_players[1].department # PyNone


\* C22: whenever analyze_dataset returns, the summary has exactly the keys
\* metadata, demographics, diaspora, temporal and geographic, and the value
\* of each is a mapping with at least one key, whatever the records were.
C22_FiveSectionsPopulated ==
  pc = "returned" =>
    /\ DOMAIN results =
         {"metadata", "demographics", "diaspora", "temporal", "geographic"}
    /\ \A section \in DOMAIN results : DOMAIN results[section] # {}

C22_Witness ==
  /\ pc = "returned"
  /\ DOMAIN departments = {}
  /\ DOMAIN diaspora_regions = {}
  /\ birth_years = <<>>
  /\ results.demographics.total_players = 1
  /\ DOMAIN results.geographic = {"by_department", "missing_departments"}


\* C23: in the summary returned, by_year[y] is the number of enriched
\* records whose birth_year is y and by_5year[b] the number of those whose
\* year falls in the five years from b; both mappings sum to the number of
\* enriched records with a birth_year, and earliest_birth and latest_birth
\* are the least and the greatest of those years, null when there is none.
C23_YearCounts ==
  LET dated   == {i \in DOMAIN enriched_players : enriched_players[i].birth_year # PyNone}
      YearOf(i) == enriched_players[i].birth_year.v
      years   == {YearOf(i) : i \in dated}
      by_year == results.temporal.by_year
      by_5    == results.temporal.by_5year
  IN  pc = "returned" =>
        /\ DOMAIN by_year = years
        /\ \A y \in years :
             by_year[y] = Cardinality({i \in dated : YearOf(i) = y})
        /\ DOMAIN by_5 = {(y \div 5) * 5 : y \in years}
        /\ \A b \in DOMAIN by_5 :
             by_5[b] = Cardinality({i \in dated : (YearOf(i) \div 5) * 5 = b})
        /\ SumValues(by_year) = Cardinality(dated)
        /\ SumValues(by_5) = Cardinality(dated)
        /\ IF dated = {}
             THEN /\ results.temporal.earliest_birth = PyNone
                  /\ results.temporal.latest_birth = PyNone
             ELSE /\ results.temporal.earliest_birth = PyInt(Smallest(years))
                  /\ results.temporal.latest_birth = PyInt(Largest(years))

C23_Witness ==
  /\ pc = "returned"
  /\ Len(enriched_players) = 2
  /\ enriched_players[1].birth_year = PyInt(1998)
  /\ enriched_players[2].birth_year = PyInt(1994)
  /\ results.temporal.by_5year[1990] = 1
  /\ results.temporal.by_5year[1995] = 1
  /\ results.temporal.earliest_birth = PyInt(1994)


\* C24: a request through a collector leaves at least rate_limit seconds
\* after the previous request through it completed, however that request
\* completed: with a response, an HTTP error status or a transport error.
C24_RequestsSpaced ==
  (g_pc = "in flight" /\ g_outcome # "none") => g_sent - g_done >= rate_limit


\* C25: in the summary returned, the count of each department code is the
\* number of enriched records with that department, the count of each
\* region is the number of enriched records with that diaspora_region (a
\* code or region no record has is absent), and total_diaspora is the
\* number of enriched records that have a diaspora_region.
C25_CountersMatchRecords ==
  LET WithDept(d)   == {i \in DOMAIN enriched_players :
                          enriched_players[i].department = PyStr(d)}
      WithRegion(r) == {i \in DOMAIN enriched_players :
                          enriched_players[i].diaspora_region = PyStr(r)}
      by_dept   == results.geographic.by_department
      by_region == results.diaspora.by_region
  IN  pc = "returned" =>
        /\ \A d \in EightCodes \cup DOMAIN by_dept :
             IF d \in DOMAIN by_dept
               THEN by_dept[d].count = Cardinality(WithDept(d))
               ELSE WithDept(d) = {}
        /\ \A r \in {t[1] : t \in RegionTables} \cup DOMAIN by_region :
             IF r \in DOMAIN by_region
               THEN by_region[r] = Cardinality(WithRegion(r))
               ELSE WithRegion(r) = {}
        /\ results.diaspora.total_diaspora =
             Cardinality({i \in DOMAIN enriched_players :
                            enriched_players[i].diaspora_region # PyNone})

C25_Witness ==
  /\ pc = "returned"
  /\ Len(enriched_players) = 2
  /\ enriched_players[1].department = enriched_players[2].department
  /\ enriched_players[1].department # PyNone
  /\ results.geographic.by_department[enriched_players[1].department.v].count = 2
  /\ Len(enriched_players[1].diaspora_countries) = 2
  /\ enriched_players[2].diaspora_region = PyNone
  /\ results.diaspora.total_diaspora = 1


\* C26: given a city name of the table as its input, the resolver returns
\* the code the table gives for that city.
C26_TableCitiesResolve ==
  r_pc = "done" =>
    \A k \in DOMAIN city_to_dept :
      r_input = city_to_dept[k][1] => r_result = PyStr(city_to_dept[k][2])


\* C27: the list wikidata.py saves is the collected list restricted, in its
\* order, to the players that have a wikidata_id and are the first of the
\* list with that id; it holds no player without an id and no id twice.
C27_FirstOfEachId ==
  LET first == {i \in DOMAIN k_all :
                  /\ k_all[i].wikidata_id # PyNone
                  /\ \A j \in 1..(i - 1) : k_all[j].wikidata_id # k_all[i].wikidata_id}
      Nth(n) == CHOOSE i \in first : Cardinality({j \in first : j <= i}) = n
      saved == k_saved.v
  IN  (k_script = "wikidata" /\ k_pc = "saved") =>
        /\ Len(saved) = Cardinality(first)
        /\ \A n \in DOMAIN saved : saved[n] = k_all[Nth(n)]
        /\ \A n \in DOMAIN saved : saved[n].wikidata_id # PyNone
        /\ \A m, n \in DOMAIN saved :
             saved[m].wikidata_id = saved[n].wikidata_id => m = n
        /\ {saved[n].wikidata_id : n \in DOMAIN saved} =
             {k_all[i].wikidata_id : i \in DOMAIN k_all} \ {PyNone}

C27_Witness ==
  /\ k_script = "wikidata"
  /\ k_pc = "saved"
  /\ Len(k_all) = 3
  /\ k_all[1].wikidata_id = PyNone
  /\ k_all[2].wikidata_id = PyStr("Q1")
  /\ k_all[3].wikidata_id = PyStr("Q1")
  /\ k_all[2].birthplace # k_all[3].birthplace
  /\ k_saved.v = <<k_all[2]>>


\* C28: after the merge of the retry script the main dataset begins with
\* the players it held, unchanged and in place; what follows are the newly
\* collected players whose id it did not hold, the first of each id, in
\* collection order; metadata.count is the number of players; and merging
\* the same collected players once more changes no player.
C28_MergeAppendsOnce ==
  LET old   == k_main.players
      new   == k_merged.players
      held  == {old[i].wikidata_id : i \in DOMAIN old}
      first == {i \in DOMAIN k_all :
                  /\ k_all[i].wikidata_id \notin held
                  /\ \A j \in 1..(i - 1) : k_all[j].wikidata_id # k_all[i].wikidata_id}
      Nth(n) == CHOOSE i \in first : Cardinality({j \in first : j <= i}) = n
  IN  k_pc = "merged" =>
        /\ Len(new) = Len(old) + Cardinality(first)
        /\ SubSeq(new, 1, Len(old)) = old
        /\ \A n \in 1..Cardinality(first) : new[Len(old) + n] = k_all[Nth(n)]
        /\ k_merged.metadata.count = Len(new)
        /\ MergeInto(k_merged, k_all).players = new

C28_Witness ==
  /\ k_pc = "merged"
  /\ Len(k_main.players) = 1
  /\ k_main.players[1].wikidata_id = PyStr("Q1")
  /\ Len(k_all) = 4
  /\ Len(k_merged.players) = 2
  /\ k_merged.players[2] = [wikidata_id |-> PyStr("Q2"), department |-> "93"]
  /\ k_merged.metadata.count = 2


\* C29: with the department, region and nationality widgets on "All" and
\* the slider on the whole range from the smallest to the largest birth
\* year of the loaded dataset, the filtered set is the loaded dataset.
C29_DefaultsKeepEverything ==
  LET df    == LoadedRows(d_app, d_rows)
      years == {d_rows[i].birth_year.v : i \in {j \in df : d_rows[j].birth_year # PyNone}}
  IN  (/\ d_pc = "done"
       /\ d_selection.department = PyStr("All")
       /\ d_selection.region = "All"
       /\ d_selection.dual = "All"
       /\ d_selection.years = <<Smallest(years), Largest(years)>>) =>
        d_filtered = df


\* C30: when the input document holds an empty record list, main never has
\* a summary: analyze_dataset raises ZeroDivisionError, no output file is
\* opened, and each output file stays as it was before the run.
C30_EmptyListRaises ==
  (/\ input_file # PyNone
   /\ input_file.t = "json"
   /\ load_data(input_file.v).raised = "none"
   /\ Len(load_data(input_file.v).value) = 0) =>
    /\ pc \in {"idle", "start", "analyze", "raised"}
    /\ pc = "raised" => error = "ZeroDivisionError"
    /\ results = <<>>
    /\ out_k = 0
    /\ \A name \in DOMAIN files : files[name].state \in {"absent", "old"}

C30_Witness ==
  /\ input_file # PyNone
  /\ input_file.t = "json"
  /\ players = <<>>
  /\ pc = "raised"
  /\ error = "ZeroDivisionError"
  /\ \A name \in DOMAIN files : files[name].state = "old"

=============================================================================
